---------------------------- MODULE Spec2Model ----------------------------
(***************************************************************************)
(* Model of the document ingestion services of ai-suite-server:            *)
(* KnowledgeIngestionService (agent scope, table knowledge_chunks) and     *)
(* CoachAIKnowledgeIngestionService (company scope, table                  *)
(* coach_ai_knowledge), both in src/index.js.                              *)
(*                                                                         *)
(* A text is a sequence of one-character strings.  Positions are the       *)
(* 0-based positions of JavaScript; Char(s, i) is s[i] of the source.      *)
(***************************************************************************)
EXTENDS Integers, Sequences, FiniteSets, TLC

VARIABLES
  text,        \* chunkText on its own: the text argument
  options,     \* chunkText on its own: the chunking options argument
  finalChunks, \* chunkText on its own: the returned sequence
  phase,       \* chunkText on its own: "call" before the call, "returned" after it
  split,       \* splitLargeText on its own: its arguments maxChars and overlapChars,
               \* its locals start and chunks, and the start of each iteration so far
  pack,        \* the paragraph loop of chunkText on its own: paragraphs, the index
               \* of the next one, the locals chunks and currentChunk, and for
               \* every chunk the statement that pushed it
  cleanedTexts, \* removeImageReferences on its own: the texts its calls returned,
               \* the first call on text, every later call on the text returned last
  store,       \* the rows of the tables knowledge_chunks and coach_ai_knowledge
  run,         \* per request: the locals of its ingestDocument call and its position
  started      \* the number of requests received so far

chunkVars == <<text, options, finalChunks, phase, split, pack, cleanedTexts>>

pipelineVars == <<store, run, started>>

vars == <<text, options, finalChunks, phase, split, pack, cleanedTexts, store, run, started>>

(***************************************************************************)
(* Program constants.  MAX_CHARS_PER_CHUNK is 30000 in the source; texts   *)
(* of that length cannot be enumerated, so the ceiling is scaled down and  *)
(* the texts with it.  Every comparison of the source against the ceiling  *)
(* is kept as it is written.                                               *)
(***************************************************************************)
MAX_CHARS_PER_CHUNK == 8

charsPerToken == 4

\* Longest text of the exhaustive part of the chunker's inputs.
MaxTextLen == 6

\* Most paragraphs of a text put together from LongParagraphs.
MaxParagraphs == 2

\* Most paragraphs of a text the paragraph loop is stepped through.
MaxPackParagraphs == 3

\* Most paragraphs of a document sent through the agent pipeline.
MaxAgentParagraphs == 3

\* Most pieces of a text handed to removeImageReferences on its own.
MaxStripPieces == 4

\* splitLargeText on its own: the longest text, the largest maxChars and the
\* largest overlapChars.
MaxSplitLen == 5

MaxSplitChars == 4

MaxSplitOverlap == 4

\* The characters of the texts: a letter, a sentence terminator, a blank and
\* a line break.
Alphabet == {"a", ".", " ", "\n"}

\* The token counts a chunking policy is drawn from.
MinTokensRange == {0, 1}
MaxTokensRange == {0, 1, 2}
OverlapTokensRange == {0, 1}

(***************************************************************************)
(* JavaScript string primitives used by the services.                     *)
(***************************************************************************)
Min(a, b) == IF a <= b THEN a ELSE b

Max(a, b) == IF a >= b THEN a ELSE b

Char(s, i) == s[i + 1]

\* \s of a regular expression and the characters String.prototype.trim drops.
IsSpace(c) == c \in {" ", "\n"}

\* s.slice(start, end) for start, end >= 0.
Slice(s, start, end) ==
  LET e == Min(end, Len(s))
  IN  IF start >= e THEN <<>> ELSE SubSeq(s, start + 1, e)

\* s.slice(-n) for n >= 0; -0 is 0, so s.slice(-0) is the whole of s.
SliceLast(s, n) ==
  IF n = 0 THEN s ELSE Slice(s, Max(Len(s) - n, 0), Len(s))

\* s.trim()
Trim(s) ==
  LET keep == {i \in 0..(Len(s) - 1) : ~IsSpace(Char(s, i))}
  IN  IF keep = {} THEN <<>>
      ELSE LET lo == CHOOSE i \in keep : \A j \in keep : i <= j
               hi == CHOOSE i \in keep : \A j \in keep : i >= j
           IN  Slice(s, lo, hi + 1)

\* s.lastIndexOf(c, from) for a one-character c and from >= 0.
LastIndexOf(s, c, from) ==
  LET hits == {i \in 0..Min(from, Len(s) - 1) : Char(s, i) = c}
  IN  IF hits = {} THEN -1 ELSE CHOOSE i \in hits : \A j \in hits : i >= j

\* The end (inclusive) of the match of /\n\s*\n/ that starts at position i, or
\* -1 when the expression does not match there: \s* is greedy, so the match
\* runs to the last line break of the whitespace run that starts at i.
ParagraphBreakEnd(s, i) ==
  IF Char(s, i) # "\n" THEN -1
  ELSE LET ends == {j \in (i + 1)..(Len(s) - 1) :
                      /\ Char(s, j) = "\n"
                      /\ \A k \in (i + 1)..(j - 1) : IsSpace(Char(s, k))}
       IN  IF ends = {} THEN -1 ELSE CHOOSE j \in ends : \A k \in ends : j >= k

\* s.split(/\n\s*\n/): the pieces between the matches, scanning from the left.
RECURSIVE SplitScan(_, _, _)
SplitScan(s, from, i) ==
  IF i >= Len(s) THEN <<Slice(s, from, Len(s))>>
  ELSE LET e == ParagraphBreakEnd(s, i)
       IN  IF e = -1 THEN SplitScan(s, from, i + 1)
           ELSE <<Slice(s, from, i)>> \o SplitScan(s, e + 1, e + 1)

SplitParagraphs(s) == SplitScan(s, 0, 0)

\* text.split(/\n\s*\n/).map(p => p.trim()).filter(p => p.length > 0)
Paragraphs(s) ==
  LET trimmed == [i \in 1..Len(SplitParagraphs(s)) |-> Trim(SplitParagraphs(s)[i])]
  IN  SelectSeq(trimmed, LAMBDA p : Len(p) > 0)

RECURSIVE Flatten(_)
Flatten(ss) == IF ss = <<>> THEN <<>> ELSE Head(ss) \o Flatten(Tail(ss))

(***************************************************************************)
(* splitLargeText.  SplitIterations lists the iterations of the while loop *)
(* from scan position start on: the start and end of the slice and the     *)
(* trimmed slice.                                                          *)
(***************************************************************************)
SliceEnd(s, start, maxChars) ==
  LET end == start + maxChars
      breakPoint == Max(Max(LastIndexOf(s, ".", end), LastIndexOf(s, "?", end)),
                        Max(LastIndexOf(s, "!", end), LastIndexOf(s, "\n", end)))
  IN  IF end < Len(s) /\ 2 * breakPoint > 2 * start + maxChars
        THEN breakPoint + 1
        ELSE end

\* The next start without the forward-progress rule.
NextStartByOverlapOnly(start, end, overlapChars) == end - overlapChars

\* The next start with the overlap added instead of taken back.
NextStartBeyondEnd(start, end, overlapChars) == Max(start + 1, end + overlapChars)

NextStart(start, end, overlapChars) == Max(start + 1, end - overlapChars)

RECURSIVE SplitIterations(_, _, _, _)
SplitIterations(s, start, maxChars, overlapChars) ==
  IF start >= Len(s) THEN <<>>
  ELSE LET end == SliceEnd(s, start, maxChars)
       IN  <<[start |-> start, end |-> end, chunk |-> Trim(Slice(s, start, end))]>>
           \o SplitIterations(s, NextStart(start, end, overlapChars),
                              maxChars, overlapChars)

splitLargeText(s, maxChars, overlapChars) ==
  LET its == SplitIterations(s, 0, maxChars, overlapChars)
      kept == SelectSeq(its, LAMBDA it : Len(it.chunk) > 0)
  IN  [i \in 1..Len(kept) |-> kept[i].chunk]

(***************************************************************************)
(* chunkText.                                                              *)
(***************************************************************************)
MinChars(o) == o.minTokens * charsPerToken

MaxChars(o) == Min(o.maxTokens * charsPerToken, MAX_CHARS_PER_CHUNK)

OverlapChars(o) == o.overlapTokens * charsPerToken

\* An iteration that starts the next chunk with the paragraph alone.
PackParagraphWithoutOverlap(st, paragraph, o) ==
  IF Len(paragraph) > MAX_CHARS_PER_CHUNK
    THEN [chunks |->
            (IF Len(Trim(st.currentChunk)) >= MinChars(o)
               THEN Append(st.chunks, Trim(st.currentChunk))
               ELSE st.chunks)
            \o splitLargeText(paragraph, MaxChars(o), OverlapChars(o)),
          currentChunk |-> <<>>]
  ELSE IF /\ Len(st.currentChunk) + Len(paragraph) > MaxChars(o)
          /\ Len(st.currentChunk) > 0
    THEN [chunks |->
            IF Len(st.currentChunk) >= MinChars(o)
              THEN Append(st.chunks, Trim(st.currentChunk))
              ELSE st.chunks,
          currentChunk |-> paragraph]
  ELSE [chunks |-> st.chunks,
        currentChunk |->
          st.currentChunk
            \o (IF st.currentChunk # <<>> THEN <<"\n", "\n">> ELSE <<>>)
            \o paragraph]

\* An iteration that pushes the chunks of a large paragraph before the chunk
\* it had been collecting.
PackParagraphSplitterFirst(st, paragraph, o) ==
  IF Len(paragraph) > MAX_CHARS_PER_CHUNK
    THEN [chunks |->
            st.chunks
            \o splitLargeText(paragraph, MaxChars(o), OverlapChars(o))
            \o (IF Len(Trim(st.currentChunk)) >= MinChars(o)
                  THEN <<Trim(st.currentChunk)>>
                  ELSE <<>>),
          currentChunk |-> <<>>]
  ELSE IF /\ Len(st.currentChunk) + Len(paragraph) > MaxChars(o)
          /\ Len(st.currentChunk) > 0
    THEN [chunks |->
            IF Len(st.currentChunk) >= MinChars(o)
              THEN Append(st.chunks, Trim(st.currentChunk))
              ELSE st.chunks,
          currentChunk |->
            SliceLast(st.currentChunk, OverlapChars(o)) \o <<"\n", "\n">> \o paragraph]
  ELSE [chunks |-> st.chunks,
        currentChunk |->
          st.currentChunk
            \o (IF st.currentChunk # <<>> THEN <<"\n", "\n">> ELSE <<>>)
            \o paragraph]

\* One iteration of the for loop over the paragraphs: st is the pair of
\* chunks and currentChunk before the iteration.
PackParagraph(st, paragraph, o) ==
  IF Len(paragraph) > MAX_CHARS_PER_CHUNK
    THEN [chunks |->
            (IF Len(Trim(st.currentChunk)) >= MinChars(o)
               THEN Append(st.chunks, Trim(st.currentChunk))
               ELSE st.chunks)
            \o splitLargeText(paragraph, MaxChars(o), OverlapChars(o)),
          currentChunk |-> <<>>]
  ELSE IF /\ Len(st.currentChunk) + Len(paragraph) > MaxChars(o)
          /\ Len(st.currentChunk) > 0
    THEN [chunks |->
            IF Len(st.currentChunk) >= MinChars(o)
              THEN Append(st.chunks, Trim(st.currentChunk))
              ELSE st.chunks,
          currentChunk |->
            SliceLast(st.currentChunk, OverlapChars(o)) \o <<"\n", "\n">> \o paragraph]
  ELSE [chunks |-> st.chunks,
        currentChunk |->
          st.currentChunk
            \o (IF st.currentChunk # <<>> THEN <<"\n", "\n">> ELSE <<>>)
            \o paragraph]

RECURSIVE PackLoop(_, _, _, _)
PackLoop(st, paragraphs, i, o) ==
  IF i > Len(paragraphs) THEN st
  ELSE PackLoop(PackParagraph(st, paragraphs[i], o), paragraphs, i + 1, o)

\* The last chunk, if it meets the minimum size.
FlushLast(st, o) ==
  IF Len(Trim(st.currentChunk)) >= MinChars(o)
    THEN Append(st.chunks, Trim(st.currentChunk))
    ELSE st.chunks

\* "If no chunks were created (very short content), create one chunk"
ShortContentGuard(chunks, s) ==
  IF Len(chunks) = 0 /\ Len(Trim(s)) > 0 THEN <<Trim(s)>> ELSE chunks

\* "Final safety check: ensure no chunk exceeds the API limit"
FinalSafetyCheck(chunks, o) ==
  Flatten([i \in 1..Len(chunks) |->
             IF Len(chunks[i]) > MAX_CHARS_PER_CHUNK
               THEN splitLargeText(chunks[i], MaxChars(o), OverlapChars(o))
               ELSE <<chunks[i]>>])

chunkText(s, o) ==
  LET packed == PackLoop([chunks |-> <<>>, currentChunk |-> <<>>], Paragraphs(s), 1, o)
  IN  FinalSafetyCheck(ShortContentGuard(FlushLast(packed, o), s), o)


(***************************************************************************)
(* removeImageReferences (agent scope only).  MatchEnd(p, s, i) is the     *)
(* position just after the match of pattern p that starts at position i    *)
(* of s, or -1 when p does not match there.                                *)
(***************************************************************************)
UpperLetters == <<"A", "B", "C", "D", "E", "F", "G", "H", "I", "J", "K", "L", "M", "N", "O", "P", "Q", "R", "S", "T", "U", "V", "W", "X", "Y", "Z">>

LowerLetters == <<"a", "b", "c", "d", "e", "f", "g", "h", "i", "j", "k", "l", "m", "n", "o", "p", "q", "r", "s", "t", "u", "v", "w", "x", "y", "z">>

\* The case folding of the i flag.
ToLower(c) ==
  IF \E k \in 1..26 : UpperLetters[k] = c
    THEN LowerLetters[CHOOSE k \in 1..26 : UpperLetters[k] = c]
    ELSE c

IsDigit(c) == c \in {"0", "1", "2", "3", "4", "5", "6", "7", "8", "9"}

IsLetter(c) == \E k \in 1..26 : c = UpperLetters[k] \/ c = LowerLetters[k]

\* [A-Za-z0-9+/=]
IsBase64Char(c) == IsLetter(c) \/ IsDigit(c) \/ c \in {"+", "/", "="}

\* A literal at position i, compared ignoring case when ci.
MatchLiteral(s, i, lit, ci) ==
  IF /\ i + Len(lit) <= Len(s)
     /\ \A k \in 1..Len(lit) :
          IF ci THEN ToLower(Char(s, i + k - 1)) = ToLower(lit[k])
                ELSE Char(s, i + k - 1) = lit[k]
    THEN i + Len(lit)
    ELSE -1

\* The position just after the longest run from position i on of characters
\* that satisfy the class (i itself when there is none): a greedy X*.
RunEnd(s, i, InClass(_)) ==
  LET stops == {j \in i..(Len(s) - 1) : ~InClass(Char(s, j))}
  IN  IF stops = {} THEN Max(i, Len(s)) ELSE CHOOSE j \in stops : \A k \in stops : j <= k

NotSemicolon(c) == c # ";"

NotSpace(c) == ~IsSpace(c)

\* /\[Figure \d+\]/gi
MatchFigure(s, i) ==
  LET a == MatchLiteral(s, i, <<"[", "F", "i", "g", "u", "r", "e", " ">>, TRUE)
      b == IF a = -1 THEN -1 ELSE RunEnd(s, a, IsDigit)
  IN  IF a = -1 \/ b = a THEN -1 ELSE MatchLiteral(s, b, <<"]">>, TRUE)

\* /data:image\/[^;]+;base64,[A-Za-z0-9+/=]+/g
MatchBase64(s, i) ==
  LET a == MatchLiteral(s, i, <<"d", "a", "t", "a", ":", "i", "m", "a", "g", "e", "/">>, FALSE)
      b == IF a = -1 THEN -1 ELSE RunEnd(s, a, NotSemicolon)
      c == IF a = -1 \/ b = a THEN -1 ELSE MatchLiteral(s, b, <<";", "b", "a", "s", "e", "6", "4", ",">>, FALSE)
      d == IF c = -1 THEN -1 ELSE RunEnd(s, c, IsBase64Char)
  IN  IF c = -1 \/ d = c THEN -1 ELSE d

ImageExtensions ==
  <<<<"j", "p", "g">>,
    <<"j", "p", "e", "g">>,
    <<"p", "n", "g">>,
    <<"g", "i", "f">>,
    <<"b", "m", "p">>,
    <<"s", "v", "g">>,
    <<"w", "e", "b", "p">>,
    <<"t", "i", "f", "f">>,
    <<"i", "c", "o">>>>

\* /\.(jpg|jpeg|png|gif|bmp|svg|webp|tiff|ico)(\?[^\s]*)?/gi: the first
\* alternative that matches is taken, then the optional query string.
MatchExtension(s, i) ==
  LET dot == MatchLiteral(s, i, <<".">>, TRUE)
      alts == {k \in 1..Len(ImageExtensions) :
                 dot # -1 /\ MatchLiteral(s, dot, ImageExtensions[k], TRUE) # -1}
      first == CHOOSE k \in alts : \A m \in alts : k <= m
      e == MatchLiteral(s, dot, ImageExtensions[first], TRUE)
      q == MatchLiteral(s, e, <<"?">>, TRUE)
  IN  IF alts = {} THEN -1
      ELSE IF q = -1 THEN e ELSE RunEnd(s, q, NotSpace)

\* /\n\s*\n\s*\n/g: a line break, then greedily to the last line break of the
\* whitespace run, with at least one line break in between.
MatchBlankLines(s, i) ==
  LET wsEnd == RunEnd(s, i, IsSpace)
      breaks == {j \in i..(wsEnd - 1) : Char(s, j) = "\n"}
      last == CHOOSE j \in breaks : \A k \in breaks : j >= k
  IN  IF i < Len(s) /\ Char(s, i) = "\n" /\ Cardinality(breaks) >= 3
        THEN last + 1
        ELSE -1

\* /\s{n,}/g
MatchWhitespace(s, i, n) ==
  LET wsEnd == RunEnd(s, i, IsSpace)
  IN  IF wsEnd - i >= n THEN wsEnd ELSE -1

MatchEnd(p, s, i) ==
  CASE p.kind = "literal" -> MatchLiteral(s, i, p.lit, TRUE)
    [] p.kind = "figure" -> MatchFigure(s, i)
    [] p.kind = "base64" -> MatchBase64(s, i)
    [] p.kind = "extension" -> MatchExtension(s, i)
    [] p.kind = "blankLines" -> MatchBlankLines(s, i)
    [] p.kind = "whitespace3" -> MatchWhitespace(s, i, 3)
    [] p.kind = "whitespace2" -> MatchWhitespace(s, i, 2)

\* s.replace(p, replacement) for a pattern with the g flag: the matches are
\* taken from the left and do not overlap.
RECURSIVE ReplaceFrom(_, _, _, _)
ReplaceFrom(s, i, p, replacement) ==
  IF i >= Len(s) THEN <<>>
  ELSE LET e == MatchEnd(p, s, i)
       IN  IF e = -1 THEN <<Char(s, i)>> \o ReplaceFrom(s, i + 1, p, replacement)
           ELSE replacement \o ReplaceFrom(s, e, p, replacement)

ReplaceAll(s, p, replacement) == ReplaceFrom(s, 0, p, replacement)

imagePatterns ==
  <<
   [kind |-> "literal", lit |-> <<"[", "I", "m", "a", "g", "e", "]">>],
   [kind |-> "literal", lit |-> <<"[", "P", "i", "c", "t", "u", "r", "e", "]">>],
   [kind |-> "figure"],
   [kind |-> "literal", lit |-> <<"[", "C", "h", "a", "r", "t", "]">>],
   [kind |-> "literal", lit |-> <<"[", "G", "r", "a", "p", "h", "]">>],
   [kind |-> "literal", lit |-> <<"[", "D", "i", "a", "g", "r", "a", "m", "]">>],
   [kind |-> "literal", lit |-> <<"[", "S", "c", "r", "e", "e", "n", "s", "h", "o", "t", "]">>],
   [kind |-> "literal", lit |-> <<"[", "P", "h", "o", "t", "o", "]">>],
   [kind |-> "literal", lit |-> <<"[", "I", "l", "l", "u", "s", "t", "r", "a", "t", "i", "o", "n", "]">>],
   [kind |-> "literal", lit |-> <<"[", "L", "o", "g", "o", "]">>],
   [kind |-> "literal", lit |-> <<"[", "B", "a", "n", "n", "e", "r", "]">>],
   [kind |-> "literal", lit |-> <<"[", "H", "e", "a", "d", "e", "r", " ", "I", "m", "a", "g", "e", "]">>],
   [kind |-> "literal", lit |-> <<"[", "F", "o", "o", "t", "e", "r", " ", "I", "m", "a", "g", "e", "]">>],
   [kind |-> "literal", lit |-> <<"[", "B", "a", "c", "k", "g", "r", "o", "u", "n", "d", " ", "I", "m", "a", "g", "e", "]">>],
   [kind |-> "base64"],
   [kind |-> "extension"],
   [kind |-> "blankLines"],
   [kind |-> "whitespace3"]
  >>

\* for (const pattern of imagePatterns) cleanedText = cleanedText.replace(pattern, '')
RECURSIVE RemovePatterns(_, _)
RemovePatterns(s, k) ==
  IF k > Len(imagePatterns) THEN s
  ELSE RemovePatterns(ReplaceAll(s, imagePatterns[k], <<>>), k + 1)

removeImageReferences(s) ==
  LET cleaned == RemovePatterns(s, 1)
      twoBreaks == ReplaceAll(cleaned, [kind |-> "blankLines"], <<"\n", "\n">>)
      trimmed == Trim(twoBreaks)
  IN  ReplaceAll(trimmed, [kind |-> "whitespace2"], <<" ">>)

(***************************************************************************)
(* The two services.  "agent" is KnowledgeIngestionService, "coach" is     *)
(* CoachAIKnowledgeIngestionService.                                       *)
(***************************************************************************)
Services == {"agent", "coach"}

\* The same list in both classes.
SUPPORTED_FILE_TYPES ==
  {"text/plain", "text/markdown", "text/csv", "text/rtf", "application/json",
   "application/xml", "text/xml",
   "application/pdf",
   "application/msword",
   "application/vnd.openxmlformats-officedocument.wordprocessingml.document",
   "application/vnd.ms-excel",
   "application/vnd.openxmlformats-officedocument.spreadsheetml.sheet",
   "application/vnd.ms-powerpoint",
   "application/vnd.openxmlformats-officedocument.presentationml.presentation",
   "application/vnd.oasis.opendocument.text",
   "application/vnd.oasis.opendocument.spreadsheet",
   "application/vnd.oasis.opendocument.presentation",
   "application/rtf", "text/richtext"}

\* The same list in both classes.
IMAGE_FILE_TYPES ==
  {"image/jpeg", "image/jpg", "image/png", "image/gif", "image/bmp",
   "image/svg+xml", "image/webp", "image/tiff", "image/ico", "image/x-icon"}

MAX_FILE_SIZE(svc) ==
  IF svc = "agent" THEN 10 * 1024 * 1024 ELSE 50 * 1024 * 1024

DEFAULT_CHUNKING_OPTIONS == [minTokens |-> 50, maxTokens |-> 500, overlapTokens |-> 50]

\* { ...this.DEFAULT_CHUNKING_OPTIONS, ...options }
MergeOptions(o) ==
  [k \in DOMAIN DEFAULT_CHUNKING_OPTIONS |->
     IF k \in DOMAIN o THEN o[k] ELSE DEFAULT_CHUNKING_OPTIONS[k]]

TableOf(svc) == IF svc = "agent" THEN "knowledge_chunks" ELSE "coach_ai_knowledge"

\* What a call returns or throws.  A message is a sequence of its parts.
Returned(v) == [threw |-> FALSE, value |-> v]

Threw(m) == [threw |-> TRUE, message |-> m]

\* validateFile refusing a file of exactly the maximum size.
validateFileBelowCeilingOnly(svc, fileType, fileSize) ==
  IF svc = "agent" /\ fileType \in IMAGE_FILE_TYPES
    THEN Threw(<<"Image files are not supported for text processing. File type: ",
                 fileType>>)
  ELSE IF fileType \notin SUPPORTED_FILE_TYPES
    THEN Threw(<<"Unsupported file type: ", fileType>>)
  ELSE IF fileSize >= MAX_FILE_SIZE(svc)
    THEN Threw(IF svc = "agent" THEN <<"File too large">>
               ELSE <<"File size exceeds the maximum allowed size">>)
  ELSE Returned("valid")

validateFile(svc, fileType, fileSize) ==
  IF svc = "agent" /\ fileType \in IMAGE_FILE_TYPES
    THEN Threw(<<"Image files are not supported for text processing. File type: ",
                 fileType>>)
  ELSE IF fileType \notin SUPPORTED_FILE_TYPES
    THEN Threw(<<"Unsupported file type: ", fileType>>)
  ELSE IF fileSize > MAX_FILE_SIZE(svc)
    THEN Threw(IF svc = "agent" THEN <<"File too large">>
               ELSE <<"File size exceeds the maximum allowed size">>)
  ELSE Returned("valid")

\* SHA-256 of the bytes: equal bytes give equal digests and, the digest being
\* collision resistant, different bytes give different digests.
generateFileHash(fileBuffer) == <<"sha256">> \o fileBuffer

\* A select that leaves out the filter on the owner column.
SelectRowsOfAnyOwner(rows, table, owner, column, value) ==
  {row \in rows : row.table = table /\ row[column] = value}

\* The rows a select with .eq(ownerColumn, owner).eq(column, value) returns.
SelectRows(rows, table, owner, column, value) ==
  {row \in rows : row.table = table /\ row.owner = owner /\ row[column] = value}

(***************************************************************************)
(* extractTextFromFile.  parsed is what the format parser does with the    *)
(* bytes: it returns the text of the document or throws with a cause.  A   *)
(* document is modelled by the text it carries, so decoding the bytes and  *)
(* parsing them both give fileBuffer.                                      *)
(***************************************************************************)
PlainTextTypes(svc) ==
  IF svc = "agent"
    THEN {"text/plain", "text/markdown", "text/csv", "application/json",
          "application/xml", "text/xml"}
    ELSE {"text/plain", "text/markdown", "text/csv", "text/rtf", "application/json",
          "application/xml", "text/xml", "text/richtext"}

PdfTypes == {"application/pdf"}

WordTypes ==
  {"application/msword",
   "application/vnd.openxmlformats-officedocument.wordprocessingml.document"}

ExcelTypes ==
  {"application/vnd.ms-excel",
   "application/vnd.openxmlformats-officedocument.spreadsheetml.sheet"}

PowerPointTypes ==
  {"application/vnd.ms-powerpoint",
   "application/vnd.openxmlformats-officedocument.presentationml.presentation"}

RtfTypes == {"text/rtf", "application/rtf", "text/richtext"}

OpenDocumentTypes ==
  {"application/vnd.oasis.opendocument.text",
   "application/vnd.oasis.opendocument.spreadsheet",
   "application/vnd.oasis.opendocument.presentation"}

\* The parser's result, its failure wrapped with the prefix of the format.
Parsed(fileBuffer, parsed, prefix) ==
  IF parsed.ok THEN Returned(fileBuffer) ELSE Threw(<<prefix, parsed.cause>>)

\* An extraction that returns the text as the parser gave it.
NotStripped(r) == r

\* The agent service strips image references from every text it returns; a
\* branch that throws returns nothing.
Stripped(r) == IF r.threw THEN r ELSE Returned(removeImageReferences(r.value))

extractTextFromFileAgent(fileBuffer, fileType, parsed) ==
  Stripped(
    IF fileType \in PlainTextTypes("agent")
      THEN Returned(fileBuffer)
    ELSE IF fileType \in PdfTypes
      THEN Parsed(fileBuffer, parsed, "Failed to process PDF: ")
    ELSE IF fileType \in WordTypes
      THEN Parsed(fileBuffer, parsed, "Failed to process Word document: ")
    ELSE IF fileType \in ExcelTypes
      THEN Parsed(fileBuffer, parsed, "Failed to process Excel file: ")
    ELSE IF fileType \in PowerPointTypes
      THEN Threw(<<"PowerPoint processing is temporarily disabled. Please convert to text format.">>)
    ELSE IF fileType \in RtfTypes
      THEN Threw(<<"RTF processing is temporarily disabled. Please convert to text format.">>)
    ELSE IF fileType \in OpenDocumentTypes
      THEN Parsed(fileBuffer, parsed, "Failed to process OpenDocument file: ")
    ELSE Returned(fileBuffer))

\* The outer catch of the coach service wraps every failure once more.
Rewrapped(r) ==
  IF r.threw THEN Threw(<<"Failed to extract text from file: ">> \o r.message) ELSE r

extractTextFromFileCoach(fileBuffer, fileType, parsed) ==
  Rewrapped(
    IF fileType \in PlainTextTypes("coach")
      THEN Returned(fileBuffer)
    ELSE IF fileType \in PdfTypes
      THEN Parsed(fileBuffer, parsed, "Failed to parse PDF: ")
    ELSE IF fileType \in WordTypes
      THEN Parsed(fileBuffer, parsed, "Failed to parse Word document: ")
    ELSE IF fileType \in ExcelTypes
      THEN Parsed(fileBuffer, parsed, "Failed to parse Excel file: ")
    ELSE IF fileType \in PowerPointTypes
      THEN Parsed(fileBuffer, parsed, "Failed to parse PowerPoint file: ")
    ELSE IF fileType \in OpenDocumentTypes
      THEN Parsed(fileBuffer, parsed, "Failed to parse OpenDocument: ")
    ELSE Threw(<<"Unsupported file type: ", fileType>>))

extractTextFromFile(svc, fileBuffer, fileType, parsed) ==
  IF svc = "agent"
    THEN extractTextFromFileAgent(fileBuffer, fileType, parsed)
    ELSE extractTextFromFileCoach(fileBuffer, fileType, parsed)

\* Whether extractTextFromFile hands the bytes to a format parser.
CallsParser(svc, fileType) ==
  \/ fileType \in PdfTypes \cup WordTypes \cup ExcelTypes \cup OpenDocumentTypes
  \/ svc = "coach" /\ fileType \in PowerPointTypes

(***************************************************************************)
(* ingestDocument as a state machine.  A run is one call of ingestDocument *)
(* by a client; it is suspended at each await of an external collaborator: *)
(* the store lookups, the format parser, the embedding call of each chunk  *)
(* and the bulk insert.  log is the run's history of collaborator calls.   *)
(***************************************************************************)
Clients == {"c1", "c2"}

Owners == {"o1", "o2"}

FileNames == {"", "notes", "report"}

\* What a collaborator reports on failure.
Causes == {"ECONNRESET", "corrupt input"}

\* The requests of one behaviour, numbered in the order they are received.
RequestIds == {1, 2}

Rep(c, n) == [i \in 1..n |-> c]

\* The documents uploaded with the chunking options given for them: an empty
\* document (no chunk), a short one (one chunk) and one above the ceiling
\* (two chunks).
Uploads ==
  {[fileBuffer |-> <<>>, options |-> <<>>],
   [fileBuffer |-> <<"a", "a">>, options |-> <<>>],
   [fileBuffer |-> Rep("a", MAX_CHARS_PER_CHUNK + 2),
    options |-> [minTokens |-> 1, maxTokens |-> 2, overlapTokens |-> 0]]}

PipelineFileTypes == {"text/plain", "application/pdf", "image/png"}

PipelineFileSizes == {MAX_FILE_SIZE("agent")}

Requests ==
  {[svc |-> svc, fileBuffer |-> u.fileBuffer, fileName |-> n, fileType |-> t,
    fileSize |-> z, owner |-> w, options |-> u.options] :
     svc \in Services, u \in Uploads, n \in FileNames, t \in PipelineFileTypes,
     z \in PipelineFileSizes, w \in Owners}

\* What a store call gives: data, an error value, or an exception.
StoreOutcomes ==
  {[kind |-> "data", cause |-> ""]}
    \cup [kind : {"error", "throw"}, cause : Causes]

\* What a format parser gives.
ParserOutcomes == {[ok |-> TRUE, cause |-> ""]} \cup [ok : {FALSE}, cause : Causes]

\* A collaborator call of a run: the call, the chunk it is for (embedding
\* calls), whether it succeeded and the cause it reported when it failed.
Event(op, index, ok, cause) == [op |-> op, index |-> index, ok |-> ok, cause |-> cause]

NoRequest ==
  [svc |-> "agent", fileBuffer |-> <<>>, fileName |-> "", fileType |-> "",
   fileSize |-> 0, owner |-> "", options |-> <<>>]

NoResult ==
  [success |-> FALSE, chunks |-> <<>>, totalChunks |-> 0, isDuplicate |-> FALSE,
   message |-> <<>>]

IdleRun ==
  [pc |-> "idle", id |-> 0, req |-> NoRequest, fileHash |-> <<>>,
   textContent |-> <<>>, chunks |-> <<>>, i |-> 0, knowledgeChunks |-> <<>>,
   result |-> NoResult, status |-> 0, log |-> <<>>, storeBefore |-> {}]

\* The result of the duplicate short-circuit.
DuplicateResult(svc) ==
  [success |-> FALSE, chunks |-> <<>>, totalChunks |-> 0, isDuplicate |-> TRUE,
   message |-> IF svc = "agent"
                 THEN <<"This file has already been uploaded to this agent. Please choose a different file.">>
                 ELSE <<"This file has already been uploaded to your Coach AI knowledge base. Please choose a different file.">>]

\* The result of the catch block of ingestDocument for an error with this message.
FailureResult(svc, message) ==
  [success |-> FALSE, chunks |-> <<>>, totalChunks |-> 0, isDuplicate |-> FALSE,
   message |-> IF svc = "agent" THEN message
               ELSE <<"Failed to process file: ">> \o message]

SuccessResult(svc, storedChunks, fileName) ==
  [success |-> TRUE, chunks |-> storedChunks, totalChunks |-> Len(storedChunks),
   isDuplicate |-> FALSE,
   message |-> IF svc = "agent" THEN <<"Successfully processed chunks from ", fileName>>
               ELSE <<"Successfully processed ", fileName,
                      " and created knowledge chunks for your Coach AI.">>]

\* The run ends: ingestDocument returns result and the route answers with it,
\* "if (result.success) res.json(result) else res.status(400).json(result)".
Return(rn, result) ==
  [rn EXCEPT !.pc = "done", !.result = result,
             !.status = IF result.success THEN 200 ELSE 400]

\* A row numbered by its place among the rows built so far.
KnowledgeChunkNumberedByRecord(rn, i) ==
  [table |-> TableOf(rn.req.svc), owner |-> rn.req.owner,
   content |-> rn.chunks[i + 1], file_name |-> rn.req.fileName,
   file_hash |-> rn.fileHash, chunk_index |-> Len(rn.knowledgeChunks),
   total_chunks |-> Len(rn.chunks), request |-> rn.id]

\* The row processChunks builds for chunk number i (from 0).  Of the columns
\* it keeps those that the services query or that identify the chunk; request
\* is the request the row comes from.
KnowledgeChunk(rn, i) ==
  [table |-> TableOf(rn.req.svc), owner |-> rn.req.owner,
   content |-> rn.chunks[i + 1], file_name |-> rn.req.fileName,
   file_hash |-> rn.fileHash, chunk_index |-> i, total_chunks |-> Len(rn.chunks),
   request |-> rn.id]

\* ingestDocument up to its first await: validateFile, generateFileHash and
\* the select by hash that checkForDuplicate issues.
Receive(c, req) ==
  /\ run[c].pc \in {"idle", "done"}
  /\ started + 1 \in RequestIds
  /\ started' = started + 1
  /\ LET rn == [IdleRun EXCEPT !.id = started + 1, !.req = req, !.storeBefore = store]
         valid == validateFile(req.svc, req.fileType, req.fileSize)
     IN  run' = [run EXCEPT ![c] =
           IF valid.threw
             THEN Return(rn, FailureResult(req.svc, valid.message))
             ELSE [rn EXCEPT !.pc = "lookupHash",
                             !.fileHash = generateFileHash(req.fileBuffer),
                             !.log = <<Event("hash", 0, TRUE, "")>>]]
  /\ UNCHANGED <<store, chunkVars>>

\* After checkForDuplicate has returned false.
NotDuplicate(rn) == [rn EXCEPT !.pc = "extract"]

\* checkForDuplicate of the agent service after the select by hash: it has
\* no try/catch, an exception of the store client ends ingestDocument in its
\* catch block; an error value is logged and the check goes on.
AfterHashLookupAgent(rn, rows, outcome) ==
  IF outcome.kind = "throw"
    THEN Return(rn, FailureResult("agent", <<outcome.cause>>))
  ELSE IF outcome.kind = "data" /\ rows # {}
    THEN Return(rn, DuplicateResult("agent"))
  ELSE IF rn.req.fileName # ""
    THEN [rn EXCEPT !.pc = "lookupName"]
  ELSE NotDuplicate(rn)

\* checkForDuplicate of the coach service going on to the extraction when the
\* select gave rows.
AfterHashLookupCoachIgnoringRows(rn, rows, outcome) == NotDuplicate(rn)

\* checkForDuplicate of the coach service: one select by hash inside a
\* try/catch, "If we can't check, allow the upload".
AfterHashLookupCoach(rn, rows, outcome) ==
  IF outcome.kind = "data" /\ rows # {}
    THEN Return(rn, DuplicateResult("coach"))
    ELSE NotDuplicate(rn)

AfterHashLookup(rn, rows, outcome) ==
  IF rn.req.svc = "agent"
    THEN AfterHashLookupAgent(rn, rows, outcome)
    ELSE AfterHashLookupCoach(rn, rows, outcome)

LookupByHash(c, outcome) ==
  /\ run[c].pc = "lookupHash"
  /\ LET rn == [run[c] EXCEPT !.log = Append(@, Event("lookupHash", 0, outcome.kind = "data", ""))]
         rows == SelectRows(store, TableOf(rn.req.svc), rn.req.owner,
                            "file_hash", rn.fileHash)
     IN  run' = [run EXCEPT ![c] = AfterHashLookup(rn, rows, outcome)]
  /\ UNCHANGED <<store, started, chunkVars>>

\* checkForDuplicate of the agent service without the check by file name.
AfterNameLookupIgnoringRows(rn, rows, outcome) ==
  IF outcome.kind = "throw"
    THEN Return(rn, FailureResult("agent", <<outcome.cause>>))
    ELSE NotDuplicate(rn)

\* checkForDuplicate of the agent service after the select by file name.
AfterNameLookup(rn, rows, outcome) ==
  IF outcome.kind = "throw"
    THEN Return(rn, FailureResult("agent", <<outcome.cause>>))
  ELSE IF outcome.kind = "data" /\ rows # {}
    THEN Return(rn, DuplicateResult("agent"))
  ELSE NotDuplicate(rn)

LookupByName(c, outcome) ==
  /\ run[c].pc = "lookupName"
  /\ LET rn == [run[c] EXCEPT !.log = Append(@, Event("lookupName", 0, outcome.kind = "data", ""))]
         rows == SelectRows(store, TableOf(rn.req.svc), rn.req.owner,
                            "file_name", rn.req.fileName)
     IN  run' = [run EXCEPT ![c] = AfterNameLookup(rn, rows, outcome)]
  /\ UNCHANGED <<store, started, chunkVars>>

\* processChunks up to its first embedding call, for the chunks of chunkText.
EnterProcessChunks(rn, chunks, apiKey) ==
  IF ~apiKey
    THEN Return(rn, FailureResult(rn.req.svc, <<"Gemini API key not configured">>))
    ELSE [rn EXCEPT !.chunks = chunks, !.i = 0, !.knowledgeChunks = <<>>,
                    !.pc = IF Len(chunks) = 0 THEN "store" ELSE "embed"]

\* ingestDocument going on with an empty text when the extraction failed.
AfterExtractionSwallowingFailure(rn, extracted, apiKey) ==
  LET textContent == IF extracted.threw THEN <<>> ELSE extracted.value
  IN  EnterProcessChunks([rn EXCEPT !.textContent = textContent],
                         chunkText(textContent, MergeOptions(rn.req.options)),
                         apiKey)

\* extractTextFromFile, chunkText and the start of processChunks; apiKey tells
\* whether GEMINI_API_KEY is set.
AfterExtraction(rn, extracted, apiKey) ==
  IF extracted.threw
    THEN Return(rn, FailureResult(rn.req.svc, extracted.message))
    ELSE EnterProcessChunks([rn EXCEPT !.textContent = extracted.value],
                            chunkText(extracted.value, MergeOptions(rn.req.options)),
                            apiKey)

\* The extraction call in the run's history: whether it returned, and the
\* parser's cause when it threw.
ExtractEvent(extracted, parsed) ==
  Event("extract", 0, ~extracted.threw, IF extracted.threw THEN parsed.cause ELSE "")

Logged(rn, event) == [rn EXCEPT !.log = Append(@, event)]

Extracted(c, extracted, parsed, apiKey) ==
  run' = [run EXCEPT ![c] =
    AfterExtraction(Logged(run[c], ExtractEvent(extracted, parsed)), extracted, apiKey)]

Extract(c, parsed, apiKey) ==
  /\ run[c].pc = "extract"
  /\ Extracted(c, extractTextFromFile(run[c].req.svc, run[c].req.fileBuffer,
                                      run[c].req.fileType, parsed),
               parsed, apiKey)
  /\ UNCHANGED <<store, started, chunkVars>>

\* The loop of processChunks ending at the first embedding call that throws.
AfterEmbeddingStoppingAtFailure(rn, ok) ==
  [rn EXCEPT !.knowledgeChunks = IF ok THEN Append(@, KnowledgeChunk(rn, rn.i)) ELSE @,
             !.i = rn.i + 1,
             !.pc = IF ok /\ rn.i + 1 < Len(rn.chunks) THEN "embed" ELSE "store"]

\* One iteration of the loop of processChunks: the embedding call of chunk i
\* succeeded (ok) or threw; a failure is logged and the loop goes on.
AfterEmbedding(rn, ok) ==
  [rn EXCEPT !.knowledgeChunks = IF ok THEN Append(@, KnowledgeChunk(rn, rn.i)) ELSE @,
             !.i = rn.i + 1,
             !.pc = IF rn.i + 1 < Len(rn.chunks) THEN "embed" ELSE "store"]

Embed(c, ok) ==
  /\ run[c].pc = "embed"
  /\ LET rn == [run[c] EXCEPT !.log = Append(@, Event("embed", run[c].i, ok, ""))]
     IN  run' = [run EXCEPT ![c] = AfterEmbedding(rn, ok)]
  /\ UNCHANGED <<store, started, chunkVars>>

\* storeChunks and the return of ingestDocument.
StoreFailure(svc, outcome) ==
  IF outcome.kind = "throw" THEN <<outcome.cause>>
  ELSE IF svc = "agent" THEN <<"Failed to store knowledge chunks: ", outcome.cause>>
  ELSE <<"Failed to store Coach AI knowledge chunks: ", outcome.cause>>

\* storeChunks returns at once for an empty list.
StoreChunksEmpty(c) ==
  /\ run[c].pc = "store"
  /\ run[c].knowledgeChunks = <<>>
  /\ run' = [run EXCEPT ![c] =
       Return(run[c], SuccessResult(run[c].req.svc, <<>>, run[c].req.fileName))]
  /\ UNCHANGED <<store, started, chunkVars>>

\* storeChunks not looking at the error of the insert.
StoreChunksIgnoringError(c, outcome) ==
  /\ run[c].pc = "store"
  /\ run[c].knowledgeChunks # <<>>
  /\ LET rn == [run[c] EXCEPT !.log = Append(@, Event("insert", 0, outcome.kind = "data", outcome.cause))]
         stored == IF outcome.kind = "data" THEN rn.knowledgeChunks ELSE <<>>
     IN  /\ store' = store \cup {stored[k] : k \in 1..Len(stored)}
         /\ run' = [run EXCEPT ![c] =
              Return(rn, SuccessResult(rn.req.svc, stored, rn.req.fileName))]
  /\ UNCHANGED <<started, chunkVars>>

StoreChunks(c, outcome) ==
  /\ run[c].pc = "store"
  /\ run[c].knowledgeChunks # <<>>
  /\ LET rn == [run[c] EXCEPT !.log = Append(@, Event("insert", 0, outcome.kind = "data", outcome.cause))]
     IN  IF outcome.kind = "data"
           THEN /\ store' = store \cup {rn.knowledgeChunks[k] : k \in 1..Len(rn.knowledgeChunks)}
                /\ run' = [run EXCEPT ![c] =
                     Return(rn, SuccessResult(rn.req.svc, rn.knowledgeChunks, rn.req.fileName))]
           ELSE /\ store' = store
                /\ run' = [run EXCEPT ![c] =
                     Return(rn, FailureResult(rn.req.svc, StoreFailure(rn.req.svc, outcome)))]
  /\ UNCHANGED <<started, chunkVars>>

(***************************************************************************)
(* The delete endpoint: app.delete('/api/delete-file/:id/:fileHash') and   *)
(* deleteFileChunks.  The request is the run of the client; its result is  *)
(* the body of the response and status the HTTP status.                    *)
(***************************************************************************)
DeleteRequests ==
  [svc : Services, owner : Owners,
   fileHash : {generateFileHash(u.fileBuffer) : u \in Uploads}]

\* A delete that leaves out the filter on the owner column.
RowsToDeleteOfAnyOwner(rows, svc, owner, fileHash) ==
  {row \in rows : row.table = TableOf(svc) /\ row.file_hash = fileHash}

\* A delete that removes the first chunk of the file only.
RowsToDeleteFirstChunkOnly(rows, svc, owner, fileHash) ==
  {row \in rows : /\ row.table = TableOf(svc) /\ row.owner = owner
                  /\ row.file_hash = fileHash /\ row.chunk_index = 0}

\* The rows delete().eq(ownerColumn, owner).eq('file_hash', fileHash) removes.
RowsToDelete(rows, svc, owner, fileHash) ==
  SelectRows(rows, TableOf(svc), owner, "file_hash", fileHash)

\* What deleteFileChunks throws for an error value of the store, and what the
\* store client throws itself.
DeleteFailure(svc, outcome) ==
  IF outcome.kind = "throw" THEN <<outcome.cause>>
  ELSE IF svc = "agent" THEN <<"Failed to delete file chunks: ", outcome.cause>>
  ELSE <<"Failed to delete Coach AI file chunks: ", outcome.cause>>

DeleteResponse(svc, outcome) ==
  IF outcome.kind = "data"
    THEN [status |-> 200,
          body |-> [NoResult EXCEPT
                      !.success = TRUE,
                      !.message = IF svc = "agent"
                                    THEN <<"File chunks deleted successfully">>
                                    ELSE <<"Coach AI file chunks deleted successfully">>]]
    ELSE [status |-> 500,
          body |-> [NoResult EXCEPT !.message = DeleteFailure(svc, outcome)]]

DeleteFile(c, del, outcome) ==
  /\ run[c].pc \in {"idle", "done"}
  /\ started + 1 \in RequestIds
  /\ started' = started + 1
  /\ store' = IF outcome.kind = "data"
                THEN store \ RowsToDelete(store, del.svc, del.owner, del.fileHash)
                ELSE store
  /\ run' = [run EXCEPT ![c] =
       [IdleRun EXCEPT
          !.pc = "done", !.id = started + 1,
          !.req = [NoRequest EXCEPT !.svc = del.svc, !.owner = del.owner],
          !.fileHash = del.fileHash,
          !.storeBefore = store,
          !.log = <<Event("delete", 0, outcome.kind = "data", outcome.cause)>>,
          !.status = DeleteResponse(del.svc, outcome).status,
          !.result = DeleteResponse(del.svc, outcome).body]]
  /\ UNCHANGED chunkVars

InitPipeline ==
  /\ store = {}
  /\ run = [c \in Clients |-> IdleRun]
  /\ started = 0

NoSplit == [maxChars |-> 0, overlapChars |-> 0, start |-> 0, chunks |-> <<>>, starts |-> <<>>]

NoPack ==
  [paragraphs |-> <<>>, i |-> 1, chunks |-> <<>>, currentChunk |-> <<>>,
   seed |-> "fresh", origin |-> <<>>]

InitIdleChunker ==
  /\ text = <<>>
  /\ options = DEFAULT_CHUNKING_OPTIONS
  /\ finalChunks = <<>>
  /\ phase = "idle"
  /\ split = NoSplit
  /\ pack = NoPack
  /\ cleanedTexts = <<>>

Init == InitPipeline /\ InitIdleChunker

\* One client sends its requests one after the other.
Next ==
  \/ \E req \in Requests : Receive("c1", req)
  \/ \E outcome \in StoreOutcomes : LookupByHash("c1", outcome)
  \/ \E outcome \in StoreOutcomes : LookupByName("c1", outcome)
  \/ \E parsed \in ParserOutcomes, apiKey \in BOOLEAN : Extract("c1", parsed, apiKey)
  \/ \E ok \in BOOLEAN : Embed("c1", ok)
  \/ StoreChunksEmpty("c1")
  \/ \E outcome \in StoreOutcomes : StoreChunks("c1", outcome)
  \/ \E del \in DeleteRequests, outcome \in StoreOutcomes : DeleteFile("c1", del, outcome)

Spec == Init /\ [][Next]_vars

(***************************************************************************)
(* validateFile on its own: every listed media type and two unlisted ones, *)
(* with the sizes around the ceilings of both services.                    *)
(***************************************************************************)
ValidationFileTypes ==
  SUPPORTED_FILE_TYPES \cup IMAGE_FILE_TYPES \cup {"application/zip", ""}

ValidationFileSizes ==
  {0,
   MAX_FILE_SIZE("agent") - 1, MAX_FILE_SIZE("agent"), MAX_FILE_SIZE("agent") + 1,
   MAX_FILE_SIZE("coach") - 1, MAX_FILE_SIZE("coach"), MAX_FILE_SIZE("coach") + 1}

ValidationRequests ==
  {[svc |-> svc, fileBuffer |-> <<"a", "a">>, fileName |-> "notes", fileType |-> t,
    fileSize |-> z, owner |-> "o1", options |-> <<>>] :
     svc \in Services, t \in ValidationFileTypes, z \in ValidationFileSizes}

NextValidate == \E req \in ValidationRequests : Receive("c1", req)

SpecValidate == Init /\ [][NextValidate]_vars

(***************************************************************************)
(* The delete endpoint on its own, from every store that holds some of the *)
(* files below: each is a document with at least one chunk, ingested once  *)
(* by an owner in a service with every embedding and the insert            *)
(* succeeding.                                                             *)
(***************************************************************************)
StoredFileRequests ==
  {req \in Requests : /\ req.fileType = "text/plain"
                      /\ req.fileBuffer # <<>>
                      /\ req.fileName = (IF Len(req.fileBuffer) = 2 THEN "notes" ELSE "report")}

\* The rows a successful ingestion of req stores, chunks being its chunks.
RowsOfChunks(req, chunks) ==
  {KnowledgeChunk([IdleRun EXCEPT !.id = 1, !.req = req,
                                  !.fileHash = generateFileHash(req.fileBuffer),
                                  !.chunks = chunks], i) : i \in 0..(Len(chunks) - 1)}

IngestedRows(req) ==
  RowsOfChunks(req,
    chunkText(extractTextFromFile(req.svc, req.fileBuffer, req.fileType,
                                  [ok |-> TRUE, cause |-> ""]).value,
              MergeOptions(req.options)))

DeleteStores == {UNION {IngestedRows(req) : req \in reqs} : reqs \in SUBSET StoredFileRequests}

InitDelete ==
  /\ store \in DeleteStores
  /\ run = [c \in Clients |-> IdleRun]
  /\ started = 0
  /\ InitIdleChunker

NextDelete ==
  \E del \in DeleteRequests, outcome \in StoreOutcomes : DeleteFile("c1", del, outcome)

SpecDelete == InitDelete /\ [][NextDelete]_vars

(***************************************************************************)
(* The chunker on its own: every text up to MaxTextLen and the texts of up *)
(* to MaxParagraphs paragraphs of LongParagraphs, with every policy.       *)
(***************************************************************************)
ShortTexts == UNION {[1..n -> Alphabet] : n \in 0..MaxTextLen}

LongParagraphs ==
  {<<"a">>, Rep("a", 3), Rep("a", 4), <<"a", ".", "a", " ", "a">>,
   Rep("a", MAX_CHARS_PER_CHUNK) \o <<".">>,
   Rep("a", 3) \o <<".">> \o Rep("a", 3),
   <<"a", "\n">> \o Rep("a", MAX_CHARS_PER_CHUNK),
   Rep("a", MAX_CHARS_PER_CHUNK + 3)}

RECURSIVE JoinParagraphs(_)
JoinParagraphs(ps) ==
  IF Len(ps) = 1 THEN ps[1]
  ELSE ps[1] \o <<"\n", "\n">> \o JoinParagraphs(Tail(ps))

LongTexts ==
  {JoinParagraphs(ps) : ps \in UNION {[1..n -> LongParagraphs] : n \in 1..MaxParagraphs}}

Texts == ShortTexts \cup LongTexts

Policies ==
  [minTokens : MinTokensRange, maxTokens : MaxTokensRange,
   overlapTokens : OverlapTokensRange]

InitChunk ==
  /\ text \in Texts
  /\ options \in Policies
  /\ finalChunks = <<>>
  /\ phase = "call"
  /\ split = NoSplit
  /\ pack = NoPack
  /\ cleanedTexts = <<>>
  /\ InitPipeline

CallChunkText ==
  /\ phase = "call"
  /\ finalChunks' = chunkText(text, options)
  /\ phase' = "returned"
  /\ UNCHANGED <<text, options, split, pack, cleanedTexts, pipelineVars>>

NextChunk == CallChunkText

SpecChunk == InitChunk /\ [][NextChunk]_vars

(***************************************************************************)
(* splitLargeText on its own, one iteration of its while loop at a time,   *)
(* for every text up to MaxSplitLen, every maxChars up to MaxSplitChars    *)
(* and every overlapChars up to MaxSplitOverlap.                           *)
(***************************************************************************)
SplitTexts == UNION {[1..n -> Alphabet] : n \in 0..MaxSplitLen}

InitSplit ==
  /\ text \in SplitTexts
  /\ options = DEFAULT_CHUNKING_OPTIONS
  /\ finalChunks = <<>>
  /\ phase = "split"
  /\ split \in [maxChars : 0..MaxSplitChars, overlapChars : 0..MaxSplitOverlap,
                 start : {0}, chunks : {<<>>}, starts : {<<>>}]
  /\ pack = NoPack
  /\ cleanedTexts = <<>>
  /\ InitPipeline

\* One iteration of "while (start < text.length)".
SplitStep ==
  /\ phase = "split"
  /\ split.start < Len(text)
  /\ split' =
       [split EXCEPT
          !.chunks = IF Len(Trim(Slice(text, split.start,
                                        SliceEnd(text, split.start, split.maxChars)))) > 0
                       THEN Append(@, Trim(Slice(text, split.start,
                                                  SliceEnd(text, split.start, split.maxChars))))
                       ELSE @,
          !.start = NextStart(split.start, SliceEnd(text, split.start, split.maxChars),
                              split.overlapChars),
          !.starts = Append(@, split.start)]
  /\ UNCHANGED <<text, options, finalChunks, phase, pack, cleanedTexts, pipelineVars>>

\* The loop is left and the chunks are returned.
SplitReturn ==
  /\ phase = "split"
  /\ split.start >= Len(text)
  /\ finalChunks' = split.chunks
  /\ phase' = "returned"
  /\ UNCHANGED <<text, options, split, pack, cleanedTexts, pipelineVars>>

NextSplit == SplitStep \/ SplitReturn

SpecSplit == InitSplit /\ [][NextSplit]_vars

(***************************************************************************)
(* The paragraph loop of chunkText, one iteration at a time.  The k-th     *)
(* paragraph of a text is written with the k-th letter, so that a chunk    *)
(* shows which paragraphs its content comes from.  For every chunk pushed, *)
(* origin keeps the statement that pushed it: "splitter" for a chunk of    *)
(* the large-text splitter, "short" for the chunk of the short-content     *)
(* guard, and for a currentChunk that was pushed how it had been started:  *)
(* "fresh" from the empty string, "flushed" by a reseed whose flush pushed *)
(* the chunk before it, "skipped" by a reseed whose flush pushed nothing.  *)
(***************************************************************************)
Letters == <<"a", "b", "c", "d", "e">>

ParagraphShapes(x) ==
  {<<x>>, Rep(x, 3), Rep(x, 4), <<x, ".", x, " ", x>>,
   Rep(x, MAX_CHARS_PER_CHUNK) \o <<".">>,
   Rep(x, 3) \o <<".">> \o Rep(x, 3),
   <<x, "\n">> \o Rep(x, MAX_CHARS_PER_CHUNK),
   <<x, " ">> \o Rep(x, 3)}

PackParagraphLists ==
  UNION {{ps \in [1..n -> UNION {ParagraphShapes(Letters[k]) : k \in 1..n}] :
            \A k \in 1..n : ps[k] \in ParagraphShapes(Letters[k])} :
         n \in 1..MaxPackParagraphs}

PackTexts == {JoinParagraphs(ps) : ps \in PackParagraphLists}

\* The branch of the loop body an iteration takes.
Branch(currentChunk, paragraph, o) ==
  IF Len(paragraph) > MAX_CHARS_PER_CHUNK THEN "large"
  ELSE IF Len(currentChunk) + Len(paragraph) > MaxChars(o) /\ Len(currentChunk) > 0
    THEN "reseed"
  ELSE "append"

\* Whether the iteration pushes currentChunk.
Pushes(currentChunk, paragraph, o) ==
  \/ /\ Branch(currentChunk, paragraph, o) = "large"
     /\ Len(Trim(currentChunk)) >= MinChars(o)
  \/ /\ Branch(currentChunk, paragraph, o) = "reseed"
     /\ Len(currentChunk) >= MinChars(o)

\* How the currentChunk the iteration leaves behind was started.
SeedAfter(seed, branch, pushes) ==
  IF branch = "large" THEN "fresh"
  ELSE IF branch = "reseed" THEN (IF pushes THEN "flushed" ELSE "skipped")
  ELSE seed

\* The statements that pushed the chunks of the iteration: currentChunk first,
\* then the chunks of the splitter.
OriginAfter(origin, seed, pushes, added) ==
  origin \o (IF pushes THEN <<seed>> ELSE <<>>)
         \o [j \in 1..(added - (IF pushes THEN 1 ELSE 0)) |-> "splitter"]

InitPack ==
  /\ text \in PackTexts
  /\ options \in Policies
  /\ finalChunks = <<>>
  /\ phase = "pack"
  /\ split = NoSplit
  /\ pack = [NoPack EXCEPT !.paragraphs = Paragraphs(text)]
  /\ cleanedTexts = <<>>
  /\ InitPipeline

Packed(pk, st, branch, pushes) ==
  [pk EXCEPT !.i = @ + 1,
             !.chunks = st.chunks,
             !.currentChunk = st.currentChunk,
             !.seed = SeedAfter(@, branch, pushes),
             !.origin = OriginAfter(@, pk.seed, pushes, Len(st.chunks) - Len(pk.chunks))]

\* One iteration of "for (const paragraph of paragraphs)".
PackStep ==
  /\ phase = "pack"
  /\ pack.i <= Len(pack.paragraphs)
  /\ pack' = Packed(pack,
                    PackParagraph([chunks |-> pack.chunks,
                                   currentChunk |-> pack.currentChunk],
                                  pack.paragraphs[pack.i], options),
                    Branch(pack.currentChunk, pack.paragraphs[pack.i], options),
                    Pushes(pack.currentChunk, pack.paragraphs[pack.i], options))
  /\ UNCHANGED <<text, options, finalChunks, phase, split, cleanedTexts, pipelineVars>>

Flushed(pk, chunks) ==
  [pk EXCEPT !.i = @ + 1,
             !.chunks = ShortContentGuard(chunks, text),
             !.origin = IF Len(chunks) > Len(pk.chunks) THEN Append(@, pk.seed)
                        ELSE IF Len(ShortContentGuard(chunks, text)) > Len(chunks)
                          THEN <<"short">>
                        ELSE @]

\* After the loop: the last chunk, the short-content guard and the safety
\* pass, and the return.
PackReturn ==
  /\ phase = "pack"
  /\ pack.i = Len(pack.paragraphs) + 1
  /\ pack' = Flushed(pack, FlushLast([chunks |-> pack.chunks,
                                      currentChunk |-> pack.currentChunk], options))
  /\ finalChunks' = FinalSafetyCheck(pack'.chunks, options)
  /\ phase' = "returned"
  /\ UNCHANGED <<text, options, split, cleanedTexts, pipelineVars>>

NextPack == PackStep \/ PackReturn

SpecPack == InitPack /\ [][NextPack]_vars

\* For every chunk that chunkText returns, the chunk of the loop it comes from
\* and the statement that pushed it: the pieces the safety pass cuts a chunk
\* into are "safety", the other chunks keep theirs.
FinalOrigin(chunks, origin, o) ==
  Flatten([i \in 1..Len(chunks) |->
             IF Len(chunks[i]) > MAX_CHARS_PER_CHUNK
               THEN [j \in 1..Len(splitLargeText(chunks[i], MaxChars(o), OverlapChars(o)))
                       |-> [of |-> i, by |-> "safety"]]
               ELSE <<[of |-> i, by |-> origin[i]]>>])

(***************************************************************************)
(* removeImageReferences on its own, called on a text and again on what it *)
(* returned.  A text is put together from pieces: letters, white space, a  *)
(* placeholder, an image extension and the two halves of a placeholder.    *)
(***************************************************************************)
StripPieces ==
  {<<"a">>, <<"b">>, <<" ">>, <<"\n">>,
   <<"[", "I", "m", "a", "g", "e", "]">>,
   <<"[", "I", "m">>, <<"a", "g", "e", "]">>,
   <<".", "p", "n", "g">>}

StripTexts ==
  {Flatten(ps) : ps \in UNION {[1..n -> StripPieces] : n \in 0..MaxStripPieces}}

InitStrip ==
  /\ text \in StripTexts
  /\ options = DEFAULT_CHUNKING_OPTIONS
  /\ finalChunks = <<>>
  /\ phase = "strip"
  /\ split = NoSplit
  /\ pack = NoPack
  /\ cleanedTexts = <<>>
  /\ InitPipeline

\* removeImageReferences(text), then removeImageReferences of what that returned.
CallRemoveImageReferences ==
  /\ phase = "strip"
  /\ Len(cleanedTexts) < 2
  /\ cleanedTexts' = Append(cleanedTexts,
                       removeImageReferences(IF cleanedTexts = <<>> THEN text
                                             ELSE cleanedTexts[Len(cleanedTexts)]))
  /\ UNCHANGED <<text, options, finalChunks, phase, split, pack, pipelineVars>>

NextStrip == CallRemoveImageReferences

SpecStrip == InitStrip /\ [][NextStrip]_vars

(***************************************************************************)
(* Two clients whose ingestDocument runs interleave at the awaits.  The    *)
(* requests are text documents of one owner under one file name, with one  *)
(* chunk or two, in either service.                                        *)
(***************************************************************************)
ConcurrentRequests ==
  {req \in Requests : /\ req.fileType = "text/plain"
                      /\ req.fileBuffer # <<>>
                      /\ req.fileName = "notes"
                      /\ req.owner = "o1"}

NextConcurrent ==
  \E c \in Clients :
    \/ \E req \in ConcurrentRequests : Receive(c, req)
    \/ \E outcome \in StoreOutcomes : LookupByHash(c, outcome)
    \/ \E outcome \in StoreOutcomes : LookupByName(c, outcome)
    \/ \E parsed \in ParserOutcomes, apiKey \in BOOLEAN : Extract(c, parsed, apiKey)
    \/ \E ok \in BOOLEAN : Embed(c, ok)
    \/ StoreChunksEmpty(c)
    \/ \E outcome \in StoreOutcomes : StoreChunks(c, outcome)

SpecConcurrent == Init /\ [][NextConcurrent]_vars

(***************************************************************************)
(* A second request after the first has been answered: client c1 sends the *)
(* first request, client c2 sends the second once c1 has its answer.  The  *)
(* requests are text documents of one owner under one file name: an empty  *)
(* one, one with one chunk and one with two.                               *)
(***************************************************************************)
RepeatRequests ==
  {req \in Requests : /\ req.fileType = "text/plain"
                      /\ req.fileName = "notes"
                      /\ req.owner = "o1"}

NextRepeat ==
  \/ \E req \in RepeatRequests : run["c1"].pc = "idle" /\ Receive("c1", req)
  \/ \E req \in RepeatRequests : run["c1"].pc = "done" /\ Receive("c2", req)
  \/ \E c \in Clients :
       \/ \E outcome \in StoreOutcomes : LookupByHash(c, outcome)
       \/ \E outcome \in StoreOutcomes : LookupByName(c, outcome)
       \/ \E parsed \in ParserOutcomes, apiKey \in BOOLEAN : Extract(c, parsed, apiKey)
       \/ \E ok \in BOOLEAN : Embed(c, ok)
       \/ StoreChunksEmpty(c)
       \/ \E outcome \in StoreOutcomes : StoreChunks(c, outcome)

SpecRepeat == Init /\ [][NextRepeat]_vars

(***************************************************************************)
(* Delete, then ingest again: the store holds some of the files of owner   *)
(* o1, each ingested once with success; client c1 sends a delete request   *)
(* and, once it has its answer, client c2 sends one of those files.        *)
(***************************************************************************)
ReingestRequests == {req \in StoredFileRequests : req.owner = "o1"}

InitReingest ==
  /\ store \in {UNION {IngestedRows(req) : req \in reqs} : reqs \in SUBSET ReingestRequests}
  /\ run = [c \in Clients |-> IdleRun]
  /\ started = 0
  /\ InitIdleChunker

NextReingest ==
  \/ \E del \in DeleteRequests, outcome \in StoreOutcomes :
       run["c1"].pc = "idle" /\ DeleteFile("c1", del, outcome)
  \/ \E req \in ReingestRequests : run["c1"].pc = "done" /\ Receive("c2", req)
  \/ \E outcome \in StoreOutcomes : LookupByHash("c2", outcome)
  \/ \E outcome \in StoreOutcomes : LookupByName("c2", outcome)
  \/ \E parsed \in ParserOutcomes, apiKey \in BOOLEAN : Extract("c2", parsed, apiKey)
  \/ \E ok \in BOOLEAN : Embed("c2", ok)
  \/ StoreChunksEmpty("c2")
  \/ \E outcome \in StoreOutcomes : StoreChunks("c2", outcome)

SpecReingest == InitReingest /\ [][NextReingest]_vars

(***************************************************************************)
(* validateFile and extractTextFromFile over every media type: a request   *)
(* of a type from the lists, or of none of them, goes through validation,  *)
(* the duplicate check and the extraction.                                 *)
(***************************************************************************)
NextExtraction ==
  \/ \E req \in {r \in ValidationRequests : r.fileSize = MAX_FILE_SIZE("agent")} :
       Receive("c1", req)
  \/ \E outcome \in StoreOutcomes : LookupByHash("c1", outcome)
  \/ \E outcome \in StoreOutcomes : LookupByName("c1", outcome)
  \/ \E parsed \in ParserOutcomes, apiKey \in BOOLEAN : Extract("c1", parsed, apiKey)

SpecExtraction == Init /\ [][NextExtraction]_vars

(***************************************************************************)
(* The agent pipeline up to the chunker on texts of several paragraphs:    *)
(* the k-th paragraph written with the k-th letter, as plain text and as   *)
(* PDF, with the default chunking options and with a small policy, one     *)
(* request in a behaviour.                                                 *)
(***************************************************************************)
AgentTextRequests ==
  LET shapes(x) == {<<x>>, Rep(x, 4), <<x, ".", x, " ", x>>}
      lists == UNION {{qs \in [1..n -> UNION {shapes(Letters[k]) : k \in 1..n}] :
                         \A k \in 1..n : qs[k] \in shapes(Letters[k])} :
                      n \in 1..MaxAgentParagraphs}
  IN  {[svc |-> "agent", fileBuffer |-> JoinParagraphs(ps), fileName |-> "notes",
        fileType |-> ty, fileSize |-> MAX_FILE_SIZE("agent"), owner |-> "o1",
        options |-> o] :
         ps \in lists, ty \in {"text/plain", "application/pdf"},
         o \in {<<>>, [minTokens |-> 0, maxTokens |-> 1, overlapTokens |-> 1]}}

NextAgentText ==
  \/ \E req \in AgentTextRequests : run["c1"].pc = "idle" /\ Receive("c1", req)
  \/ \E outcome \in StoreOutcomes : LookupByHash("c1", outcome)
  \/ \E outcome \in StoreOutcomes : LookupByName("c1", outcome)
  \/ \E parsed \in ParserOutcomes, apiKey \in BOOLEAN : Extract("c1", parsed, apiKey)

SpecAgentText == Init /\ [][NextAgentText]_vars

(***************************************************************************)
(* Properties of chunkText (checked under SpecChunk).                      *)
(***************************************************************************)

\* C1: whatever the text and the policy, every chunk chunkText returns has at
\* most MAX_CHARS_PER_CHUNK characters.
C1_EveryChunkWithinCeiling ==
  phase = "returned" =>
    \A k \in 1..Len(finalChunks) : Len(finalChunks[k]) <= MAX_CHARS_PER_CHUNK

\* C2: chunkText returns at least one chunk when the trimmed text is not
\* empty, and the empty sequence when the trimmed text is empty.
C2_ChunksIffTextNotEmpty ==
  phase = "returned" =>
    IF Len(Trim(text)) > 0 THEN Len(finalChunks) >= 1 ELSE finalChunks = <<>>

(***************************************************************************)
(* Properties of ingestDocument (checked under Spec, C7 under SpecValidate) *)
(***************************************************************************)
EventsOf(rn, op) == SelectSeq(rn.log, LAMBDA e : e.op = op)

Called(rn, op) == EventsOf(rn, op) # <<>>

LastEvent(rn) == rn.log[Len(rn.log)]

\* The rows of the run's owner, in the table of its service, with its
\* fingerprint and with its file name.
RowsWithHash(rn) ==
  {row \in store : /\ row.table = TableOf(rn.req.svc)
                   /\ row.owner = rn.req.owner
                   /\ row.file_hash = rn.fileHash}

RowsWithName(rn) ==
  {row \in store : /\ row.table = TableOf(rn.req.svc)
                   /\ row.owner = rn.req.owner
                   /\ row.file_name = rn.req.fileName}

\* checkForDuplicate has returned and nothing has happened in the run since:
\* it returned true (the run ended with the duplicate result) or false (the
\* run is about to extract the text).
CheckReturnedTrue(rn) == rn.pc = "done" /\ rn.result.isDuplicate

CheckReturnedFalse(rn) == rn.pc = "extract"

LookupsSucceeded(rn) ==
  \A k \in 1..Len(rn.log) :
    rn.log[k].op \in {"lookupHash", "lookupName"} => rn.log[k].ok

\* C3: with the lookups succeeding and no row of the owner under the file
\* name, checkForDuplicate returns true exactly when the store holds a row of
\* that owner with that fingerprint; rows of another owner do not count.
C3_DuplicateIffOwnerHoldsFingerprint ==
  \A c \in Clients :
    (/\ CheckReturnedTrue(run[c]) \/ CheckReturnedFalse(run[c])
     /\ LookupsSucceeded(run[c])
     /\ run[c].req.fileName = "" \/ RowsWithName(run[c]) = {})
      => (CheckReturnedTrue(run[c]) <=> RowsWithHash(run[c]) # {})

\* Scope isolation happens: the check returned false although another owner
\* holds rows with the fingerprint, in the same table.
C3_Witness ==
  \E c \in Clients :
    /\ CheckReturnedFalse(run[c])
    /\ LookupsSucceeded(run[c])
    /\ \E row \in store : /\ row.table = TableOf(run[c].req.svc)
                          /\ row.file_hash = run[c].fileHash
                          /\ row.owner # run[c].req.owner

\* C4 as stated: in both services, a file name given and no row of the owner
\* with the fingerprint, a row of the owner with that file name makes the
\* check report a duplicate.
C4_FileNameMatchIsDuplicate ==
  \A c \in Clients :
    (/\ CheckReturnedTrue(run[c]) \/ CheckReturnedFalse(run[c])
     /\ LookupsSucceeded(run[c])
     /\ run[c].req.fileName # ""
     /\ RowsWithHash(run[c]) = {}
     /\ RowsWithName(run[c]) # {})
      => CheckReturnedTrue(run[c])

\* C4 amended: the agent service reports the duplicate by file name; the
\* coach service never looks the file name up and reports none.
C4_FileNameMatchIsDuplicateForAgentOnly ==
  \A c \in Clients :
    (/\ CheckReturnedTrue(run[c]) \/ CheckReturnedFalse(run[c])
     /\ LookupsSucceeded(run[c])
     /\ run[c].req.fileName # ""
     /\ RowsWithHash(run[c]) = {}
     /\ RowsWithName(run[c]) # {})
      => /\ CheckReturnedTrue(run[c]) <=> run[c].req.svc = "agent"
         /\ Called(run[c], "lookupName") <=> run[c].req.svc = "agent"

C4_Witness ==
  \E c \in Clients :
    /\ run[c].req.svc = "agent"
    /\ CheckReturnedTrue(run[c])
    /\ LookupsSucceeded(run[c])
    /\ run[c].req.fileName # ""
    /\ RowsWithHash(run[c]) = {}
    /\ RowsWithName(run[c]) # {}

\* C5: when a lookup of the duplicate check fails, by an error value or by
\* an exception, the check yields not-duplicate and ingestDocument goes on to
\* extract the text: no run ends on a failed lookup.
C5_LookupFailureFailsOpen ==
  \A c \in Clients :
    (/\ run[c].log # <<>>
     /\ LastEvent(run[c]).op \in {"lookupHash", "lookupName"}
     /\ ~LastEvent(run[c]).ok)
      => run[c].pc \in {"lookupName", "extract"}

\* The duplicate check was positive: the last call of the run is a lookup
\* that succeeded and the rows it selects are there.
CheckPositive(rn) ==
  /\ rn.log # <<>>
  /\ LastEvent(rn).ok
  /\ \/ LastEvent(rn).op = "lookupHash" /\ RowsWithHash(rn) # {}
     \/ LastEvent(rn).op = "lookupName" /\ RowsWithName(rn) # {}

\* C6: a positive duplicate check ends the run with the returned result
\* isDuplicate = true, success = false and no chunks, and a run that ends so
\* has called neither the extraction nor the embedding nor the insert.
C6_DuplicateShortCircuits ==
  \A c \in Clients :
    /\ CheckPositive(run[c]) =>
         /\ run[c].pc = "done"
         /\ run[c].result.isDuplicate
    /\ (run[c].pc = "done" /\ run[c].result.isDuplicate) =>
         /\ ~run[c].result.success
         /\ run[c].result.chunks = <<>>
         /\ run[c].result.totalChunks = 0
         /\ ~Called(run[c], "extract")
         /\ ~Called(run[c], "embed")
         /\ ~Called(run[c], "insert")
         /\ store = run[c].storeBefore

C6_Witness ==
  \E c \in Clients :
    /\ CheckPositive(run[c])
    /\ run[c].pc = "done"
    /\ run[c].result.isDuplicate

\* C7: validateFile accepts a media type and a size exactly when the type is
\* listed as supported, is no image type and the size is at most the ceiling
\* of the service, 10MB (agent) or 50MB (coach); a rejected request ends
\* before any hashing, lookup or extraction.
C7_ValidFilesExactly ==
  \A c \in Clients :
    run[c].pc # "idle" =>
      LET req == run[c].req
          ceiling == IF req.svc = "agent" THEN 10485760 ELSE 52428800
          acceptable == /\ req.fileType \in SUPPORTED_FILE_TYPES
                        /\ req.fileType \notin IMAGE_FILE_TYPES
                        /\ req.fileSize <= ceiling
      IN  IF acceptable
            THEN Called(run[c], "hash")
            ELSE /\ run[c].pc = "done"
                 /\ ~run[c].result.success
                 /\ ~run[c].result.isDuplicate
                 /\ run[c].log = <<>>

\* A file of exactly the ceiling passes validation, in each service.
C7_Witness ==
  \E c \in Clients :
    /\ run[c].req.svc = "coach"
    /\ run[c].req.fileSize = 52428800
    /\ Called(run[c], "hash")

\* The parts of a message.
Parts(message) == {message[k] : k \in 1..Len(message)}

ExtractionFailed(rn) == \E k \in 1..Len(rn.log) : rn.log[k].op = "extract" /\ ~rn.log[k].ok

\* C8: a failed extraction ends the run: ingestDocument returns success =
\* false with no chunks and a message that carries the cause, the extraction
\* was called once, no embedding call and no insert followed and the store is
\* as it was.
C8_ExtractionFailureAborts ==
  \A c \in Clients :
    ExtractionFailed(run[c]) =>
      /\ run[c].pc = "done"
      /\ ~run[c].result.success
      /\ ~run[c].result.isDuplicate
      /\ run[c].result.chunks = <<>>
      /\ Len(EventsOf(run[c], "extract")) = 1
      /\ EventsOf(run[c], "extract")[1].cause \in Parts(run[c].result.message)
      /\ ~Called(run[c], "embed")
      /\ ~Called(run[c], "insert")
      /\ store = run[c].storeBefore

C8_Witness ==
  \E c \in Clients :
    /\ ExtractionFailed(run[c])
    /\ run[c].pc = "done"
    /\ store # {}

\* The embedding calls of a run, in the order they were made.
Embeddings(rn) == EventsOf(rn, "embed")

\* C9: when processChunks hands its records to the storage step, every chunk
\* has had exactly one embedding call, in the order of the chunks, failed or
\* not, and the records are those of the chunks whose call succeeded, in the
\* order of the chunks.
C9_EmbeddingFailureSkipsOnlyThatChunk ==
  \A c \in Clients :
    run[c].pc = "store" =>
      LET calls == Embeddings(run[c])
          good == SelectSeq(calls, LAMBDA e : e.ok)
      IN  /\ Len(calls) = Len(run[c].chunks)
          /\ \A k \in 1..Len(calls) : calls[k].index = k - 1
          /\ Len(run[c].knowledgeChunks) = Len(good)
          /\ \A k \in 1..Len(good) :
               /\ run[c].knowledgeChunks[k].chunk_index = good[k].index
               /\ run[c].knowledgeChunks[k].content = run[c].chunks[good[k].index + 1]

\* The call for the first chunk failed, the call for the second chunk was
\* made and its record is handed on.
C9_Witness ==
  \E c \in Clients :
    /\ run[c].pc = "store"
    /\ Len(Embeddings(run[c])) = 2
    /\ ~Embeddings(run[c])[1].ok
    /\ Embeddings(run[c])[2].ok
    /\ Len(run[c].knowledgeChunks) = 1

\* C10: when chunkText gave at least one chunk and the embedding call failed
\* for each of them, ingestDocument returns success = false.
C10_AllEmbeddingsFailedIsFailure ==
  \A c \in Clients :
    (/\ run[c].pc = "done"
     /\ Len(run[c].chunks) >= 1
     /\ Len(Embeddings(run[c])) = Len(run[c].chunks)
     /\ \A k \in 1..Len(Embeddings(run[c])) : ~Embeddings(run[c])[k].ok)
      => ~run[c].result.success

InsertFailed(rn) == \E k \in 1..Len(rn.log) : rn.log[k].op = "insert" /\ ~rn.log[k].ok

\* C11: a failed bulk insert fails the whole ingestion: ingestDocument returns
\* success = false with no chunks and a message that carries the store's
\* error message, the insert was attempted once and the store is as it was.
C11_InsertFailureFailsIngestion ==
  \A c \in Clients :
    InsertFailed(run[c]) =>
      /\ run[c].pc = "done"
      /\ ~run[c].result.success
      /\ ~run[c].result.isDuplicate
      /\ run[c].result.chunks = <<>>
      /\ run[c].result.totalChunks = 0
      /\ run[c].status = 400
      /\ Len(EventsOf(run[c], "insert")) = 1
      /\ EventsOf(run[c], "insert")[1].cause \in Parts(run[c].result.message)
      /\ store = run[c].storeBefore

\* The store answered the insert of two records with an error value.
C11_Witness ==
  \E c \in Clients :
    /\ InsertFailed(run[c])
    /\ Len(run[c].knowledgeChunks) = 2
    /\ "Failed to store knowledge chunks: " \in Parts(run[c].result.message)

\* The run of c is a delete request that the store answered.
Deleted(rn) == rn.pc = "done" /\ rn.log # <<>> /\ rn.log[1].op = "delete"

\* The rows a delete request is about: those of its table, its owner and its
\* fingerprint.
Targeted(rn, row) ==
  /\ row.table = TableOf(rn.req.svc)
  /\ row.owner = rn.req.owner
  /\ row.file_hash = rn.fileHash

\* C12: deleteFileChunks removes every record whose owner and fingerprint
\* both match and leaves every other record as it was, no record is added;
\* on a failure of the store the handler answers 500 with success = false.
C12_DeleteRemovesExactlyTheFile ==
  \A c \in Clients :
    Deleted(run[c]) =>
      IF run[c].log[1].ok
        THEN /\ store \subseteq run[c].storeBefore
             /\ \A row \in run[c].storeBefore :
                  row \in store <=> ~Targeted(run[c], row)
             /\ run[c].status = 200
             /\ run[c].result.success
        ELSE /\ run[c].status = 500
             /\ ~run[c].result.success
             /\ run[c].log[1].cause \in Parts(run[c].result.message)

\* A delete removed the records of a file while the same table holds the
\* same fingerprint for another owner and another file of the same owner.
C12_Witness ==
  \E c \in Clients :
    /\ Deleted(run[c])
    /\ run[c].log[1].ok
    /\ \E row \in run[c].storeBefore : Targeted(run[c], row)
    /\ \E row \in store : /\ row.table = TableOf(run[c].req.svc)
                          /\ row.file_hash = run[c].fileHash
                          /\ row.owner # run[c].req.owner
    /\ \E row \in store : /\ row.table = TableOf(run[c].req.svc)
                          /\ row.owner = run[c].req.owner
                          /\ row.file_hash # run[c].fileHash

(***************************************************************************)
(* Properties of splitLargeText (checked under SpecSplit).                 *)
(***************************************************************************)

\* C13: in splitLargeText the scan position start strictly increases from
\* one iteration to the next, for every maxChars >= 0 and overlapChars >= 0,
\* so the loop runs at most text.length iterations and then returns.
C13_SplitMakesProgress ==
  /\ \A k \in 1..Len(split.starts) :
       /\ split.starts[k] < Len(text)
       /\ split.starts[k] <
            (IF k < Len(split.starts) THEN split.starts[k + 1] ELSE split.start)
  /\ Len(split.starts) <= Len(text)
  /\ phase = "returned" =>
       finalChunks = splitLargeText(text, split.maxChars, split.overlapChars)

\* The loop has run to its end with overlapChars >= maxChars and most of the
\* iterations moved start by the one character of the forward-progress rule.
C13_Witness ==
  /\ phase = "returned"
  /\ split.overlapChars >= split.maxChars
  /\ split.maxChars > 0
  /\ Len(split.starts) = Len(text)
  /\ Len(text) = MaxSplitLen

(***************************************************************************)
(* Further properties of chunkText (checked under SpecChunk).              *)
(***************************************************************************)

\* C14: in the sequence chunkText returns, a chunk shorter than minChars =
\* minTokens * 4 occurs only when it is the only chunk of the sequence.
C14_ShortChunkOnlyAlone ==
  phase = "returned" =>
    \A k \in 1..Len(finalChunks) :
      Len(finalChunks[k]) < MinChars(options) => Len(finalChunks) = 1

\* C15: every chunk chunkText returns has at most maxChars =
\* min(maxTokens * 4, MAX_CHARS_PER_CHUNK) characters (stated for the policies
\* with maxTokens >= 1, where maxChars is a size a chunk can have).
C15_EveryChunkWithinMaxChars ==
  (phase = "returned" /\ options.maxTokens >= 1) =>
    \A k \in 1..Len(finalChunks) : Len(finalChunks[k]) <= MaxChars(options)

(***************************************************************************)
(* C16.  Overlap property of the paragraph-packing path: when chunkText    *)
(* returns two consecutive chunks c[i], c[i+1] that the packing path       *)
(* pushed on the two sides of a flush-then-reseed transition (c[i] is the  *)
(* chunk the flush pushed, c[i+1] is the reseeded currentChunk, and the    *)
(* safety pass cut neither), and overlapChars > 0, then a non-empty suffix *)
(* of c[i] of at most overlapChars characters is a prefix of c[i+1].       *)
(***************************************************************************)
AcrossReseed(j) ==
  /\ j + 1 <= Len(FinalOrigin(pack.chunks, pack.origin, options))
  /\ FinalOrigin(pack.chunks, pack.origin, options)[j + 1].by = "flushed"
  /\ FinalOrigin(pack.chunks, pack.origin, options)[j].by # "safety"
  /\ FinalOrigin(pack.chunks, pack.origin, options)[j].of + 1 =
       FinalOrigin(pack.chunks, pack.origin, options)[j + 1].of

SuffixIsPrefix(c, d, n) ==
  \E m \in 1..Min(n, Len(c)) : m <= Len(d) /\ SliceLast(c, m) = Slice(d, 0, m)

C16_OverlapAcrossReseed ==
  (phase = "returned" /\ pack.paragraphs # <<>> /\ OverlapChars(options) > 0) =>
    /\ Len(FinalOrigin(pack.chunks, pack.origin, options)) = Len(finalChunks)
    /\ \A j \in 1..(Len(finalChunks) - 1) :
         AcrossReseed(j) =>
           SuffixIsPrefix(finalChunks[j], finalChunks[j + 1], OverlapChars(options))

\* A flush-then-reseed transition with a positive overlap has happened and both
\* of its chunks were returned; the overlap is shorter than the flushed chunk.
C16_Witness ==
  /\ phase = "returned" /\ pack.paragraphs # <<>> /\ OverlapChars(options) > 0
  /\ MaxChars(options) > 0 /\ MinChars(options) > 0
  /\ \E j \in 1..(Len(finalChunks) - 1) :
       /\ AcrossReseed(j)
       /\ Len(finalChunks[j]) > OverlapChars(options)

(***************************************************************************)
(* C17.  The chunks chunkText returns follow the order of the paragraphs:  *)
(* if paragraph p precedes paragraph q in the text, the first chunk with   *)
(* content of q is not placed before the first chunk with content of p,    *)
(* also when the large-text splitter and the final safety pass insert      *)
(* several chunks.  The k-th paragraph is written with the k-th letter.    *)
(***************************************************************************)
ChunksWith(x) ==
  {j \in 1..Len(finalChunks) : \E n \in 1..Len(finalChunks[j]) : finalChunks[j][n] = x}

FirstChunkWith(x) == CHOOSE j \in ChunksWith(x) : \A k \in ChunksWith(x) : j <= k

C17_ChunksFollowParagraphOrder ==
  (phase = "returned" /\ pack.paragraphs # <<>>) =>
    \A p \in 1..Len(pack.paragraphs) : \A q \in (p + 1)..Len(pack.paragraphs) :
      (ChunksWith(Letters[p]) # {} /\ ChunksWith(Letters[q]) # {}) =>
        FirstChunkWith(Letters[p]) <= FirstChunkWith(Letters[q])

\* Three paragraphs, each with a chunk of its own content first, where both the
\* splitter and the safety pass have inserted chunks.
C17_Witness ==
  /\ phase = "returned" /\ Len(pack.paragraphs) = 3 /\ MinChars(options) > 0
  /\ \A k \in 1..3 : ChunksWith(Letters[k]) # {}
  /\ FirstChunkWith(Letters[1]) < FirstChunkWith(Letters[2])
  /\ FirstChunkWith(Letters[2]) < FirstChunkWith(Letters[3])
  /\ Cardinality({j \in 1..Len(pack.origin) : pack.origin[j] = "splitter"}) >= 2
  /\ \E i \in 1..Len(pack.chunks) :
       /\ pack.origin[i] # "splitter"
       /\ Cardinality({j \in 1..Len(finalChunks) :
            FinalOrigin(pack.chunks, pack.origin, options)[j] =
              [of |-> i, by |-> "safety"]}) >= 2

(***************************************************************************)
(* C18.  removeImageReferences is idempotent: a second call on the text    *)
(* the first call returned returns that text again, also for a text where  *)
(* taking a placeholder or an image extension out makes a new one appear.  *)
(***************************************************************************)
C18_StrippingIsIdempotent ==
  Len(cleanedTexts) = 2 => cleanedTexts[2] = cleanedTexts[1]

(***************************************************************************)
(* C19.  removeImageReferences does not alter non-image text: for a text   *)
(* without image placeholder, base64 image data and image file extension,  *)
(* the text returned has the same paragraphs with the same words in them   *)
(* as the text given (no two words joined, no paragraph boundary removed). *)
(***************************************************************************)
ImageReferencePatterns == {k \in 1..Len(imagePatterns) :
                             imagePatterns[k].kind \in {"literal", "figure", "base64", "extension"}}

HasImageReference(s) ==
  \E k \in ImageReferencePatterns : \E i \in 0..(Len(s) - 1) :
    MatchEnd(imagePatterns[k], s, i) # -1

\* The words of s from position i on: the runs of characters other than white space.
RECURSIVE WordsFrom(_, _)
WordsFrom(s, i) ==
  IF i >= Len(s) THEN <<>>
  ELSE IF IsSpace(Char(s, i)) THEN WordsFrom(s, i + 1)
  ELSE <<Slice(s, i, RunEnd(s, i, NotSpace))>> \o WordsFrom(s, RunEnd(s, i, NotSpace))

\* The words of every paragraph of s.
ParagraphWords(s) ==
  [k \in 1..Len(Paragraphs(s)) |-> WordsFrom(Paragraphs(s)[k], 0)]

C19_NonImageTextUnaltered ==
  (Len(cleanedTexts) >= 1 /\ ~HasImageReference(text)) =>
    ParagraphWords(cleanedTexts[1]) = ParagraphWords(text)

(***************************************************************************)
(* C20.  On a flush-then-reseed transition of chunkText, for every         *)
(* overlapChars >= 0 (0 included), the new currentChunk is the last        *)
(* min(overlapChars, length) characters of the previous currentChunk, then *)
(* the two-character paragraph separator, then the new paragraph.  Stated   *)
(* for the policies with maxTokens >= 1.                                   *)
(***************************************************************************)
LastChars(s, n) == SubSeq(s, Len(s) - Min(n, Len(s)) + 1, Len(s))

Reseeds ==
  /\ phase = "pack"
  /\ options.maxTokens >= 1
  /\ pack.i <= Len(pack.paragraphs)
  /\ Branch(pack.currentChunk, pack.paragraphs[pack.i], options) = "reseed"

C20_ReseedKeepsLastOverlapChars ==
  [][Reseeds =>
       pack'.currentChunk =
         LastChars(pack.currentChunk, OverlapChars(options))
           \o <<"\n", "\n">> \o pack.paragraphs[pack.i]]_vars

(***************************************************************************)
(* C21.  Every string splitLargeText(text, maxChars, overlapChars) emits   *)
(* has at most maxChars characters, also when the end of the slice is      *)
(* snapped to just after a sentence terminator or a line break.  Stated    *)
(* for maxChars >= 1.                                                      *)
(***************************************************************************)
C21_SplitChunksWithinMaxChars ==
  (phase \in {"split", "returned"} /\ split.maxChars >= 1) =>
    \A k \in 1..Len(split.chunks) : Len(split.chunks[k]) <= split.maxChars

(***************************************************************************)
(* C22.  In an iteration of splitLargeText where start + maxChars is       *)
(* before the end of the text, let b be the latest position of '.', '?',   *)
(* '!' or a line break at or before start + maxChars: the slice ends just  *)
(* after b if b > start + maxChars * 0.5, at start + maxChars otherwise;   *)
(* hence every slice but the last covers more than maxChars / 2 characters *)
(* of the text before trimming.  Stated for maxChars >= 1.                 *)
(***************************************************************************)
LatestBreak(s, from) ==
  LET at == {i \in 0..Min(from, Len(s) - 1) : Char(s, i) \in {".", "?", "!", "\n"}}
  IN  IF at = {} THEN -1 ELSE CHOOSE i \in at : \A j \in at : i >= j

\* The end of the slice as the rule of the claim gives it.
SnappedEnd(s, start, maxChars) ==
  IF start + maxChars < Len(s) /\ 2 * LatestBreak(s, start + maxChars) > 2 * start + maxChars
    THEN LatestBreak(s, start + maxChars) + 1
    ELSE start + maxChars

\* The number of characters of the text that the slice of iteration k covers.
SliceLength(k) ==
  Min(SliceEnd(text, split.starts[k], split.maxChars), Len(text)) - split.starts[k]

C22_SliceEndRule ==
  (phase \in {"split", "returned"} /\ split.maxChars >= 1) =>
    \A k \in 1..Len(split.starts) :
      SliceEnd(text, split.starts[k], split.maxChars) =
        SnappedEnd(text, split.starts[k], split.maxChars)

C22_SlicesButLastAboveHalf ==
  (phase = "returned" /\ split.maxChars >= 1) =>
    /\ C22_SliceEndRule
    /\ \A k \in 1..(Len(split.starts) - 1) : 2 * SliceLength(k) > split.maxChars

(***************************************************************************)
(* C23.  Deduplication under concurrent requests: whatever the             *)
(* interleaving of two ingestDocument runs of two clients, with every      *)
(* store lookup of both succeeding, the store never holds records of two   *)
(* ingestions for the same owner and fingerprint.                          *)
(***************************************************************************)
C23_OneIngestionPerOwnerAndFingerprint ==
  (\A c \in Clients : run[c].id # 0 /\ LookupsSucceeded(run[c])) =>
    \A r1 \in store : \A r2 \in store :
      (r1.table = r2.table /\ r1.owner = r2.owner /\ r1.file_hash = r2.file_hash) =>
        r1.request = r2.request

(***************************************************************************)
(* C24.  After ingestDocument has returned success = true for some bytes   *)
(* and owner, a later ingestDocument of the same bytes for the same owner, *)
(* with its store lookups succeeding, returns isDuplicate = true and       *)
(* stores nothing, also when the first run stored no record.               *)
(***************************************************************************)
SameFile(rn1, rn2) ==
  /\ rn1.req.svc = rn2.req.svc
  /\ rn1.req.owner = rn2.req.owner
  /\ rn1.req.fileBuffer = rn2.req.fileBuffer

\* Client c2 has its answer to a request for the file that client c1 had
\* ingested with success before.
RepeatAnswered ==
  /\ run["c1"].pc = "done" /\ run["c1"].result.success
  /\ run["c2"].pc = "done" /\ run["c2"].id # 0
  /\ SameFile(run["c1"], run["c2"])
  /\ LookupsSucceeded(run["c2"])

C24_RepeatIsDuplicate ==
  RepeatAnswered =>
    /\ run["c2"].result.isDuplicate
    /\ store = run["c2"].storeBefore

(***************************************************************************)
(* C25.  Ingest, delete, ingest: after a successful ingestion that stored  *)
(* at least one record for an owner and fingerprint, a successful          *)
(* deleteFileChunks(owner, fingerprint) followed by ingestDocument of the  *)
(* same bytes under the same file name for the same owner is not reported  *)
(* as a duplicate, neither by fingerprint nor by file name, and, every     *)
(* collaborator call succeeding, stores the records again; in both         *)
(* services.                                                               *)
(***************************************************************************)
\* Client c1 has deleted a file that was stored and client c2 has then sent
\* that file again; c2's store lookups so far have succeeded.
DeletedThenSentAgain ==
  /\ Deleted(run["c1"]) /\ run["c1"].log[1].ok
  /\ \E row \in run["c1"].storeBefore : Targeted(run["c1"], row)
  /\ run["c2"].id # 0
  /\ run["c2"].req.svc = run["c1"].req.svc
  /\ run["c2"].req.owner = run["c1"].req.owner
  /\ run["c2"].fileHash = run["c1"].fileHash
  /\ LookupsSucceeded(run["c2"])

\* The run has ended after its extraction, every embedding call and its
\* insert succeeded.
EveryCallSucceeded(rn) ==
  /\ rn.pc = "done"
  /\ \A k \in 1..Len(rn.log) : rn.log[k].ok
  /\ Called(rn, "extract")
  /\ "Gemini API key not configured" \notin Parts(rn.result.message)

NoStrategyMessages ==
  {"Unsupported file type: ",
   "PowerPoint processing is temporarily disabled. Please convert to text format.",
   "RTF processing is temporarily disabled. Please convert to text format."}

C26_ValidatedTypesHaveAStrategy ==
  \A c \in Clients :
    (run[c].pc = "done" /\ ExtractionFailed(run[c])) =>
      Parts(run[c].result.message) \cap NoStrategyMessages = {}

(***************************************************************************)
(* C27.  In the agent service the text that removeImageReferences returns  *)
(* has no two consecutive white-space characters, so the text that         *)
(* ingestDocument hands to chunkText has no blank-line paragraph boundary: *)
(* chunkText sees at most one paragraph and never takes the                *)
(* flush-then-reseed branch of the paragraph loop in that pipeline.        *)
(***************************************************************************)
NoTwoWhitespace(s) ==
  \A i \in 0..(Len(s) - 2) : ~(IsSpace(Char(s, i)) /\ IsSpace(Char(s, i + 1)))

\* The iterations of the paragraph loop over s that take the reseed branch.
ReseedIterations(s, o) ==
  {k \in 1..Len(Paragraphs(s)) :
     Branch(PackLoop([chunks |-> <<>>, currentChunk |-> <<>>],
                     SubSeq(Paragraphs(s), 1, k - 1), 1, o).currentChunk,
            Paragraphs(s)[k], o) = "reseed"}

\* The run has its text from extractTextFromFile.
HasText(rn) == Called(rn, "extract") /\ ~ExtractionFailed(rn)

SlicePositions(k) ==
  split.starts[k]..(Min(SliceEnd(text, split.starts[k], split.maxChars), Len(text)) - 1)

\* The iterations whose slice is pushed: the ones not empty after trim().
EmittedIterations ==
  {k \in 1..Len(split.starts) :
     Len(Trim(Slice(text, split.starts[k],
                    SliceEnd(text, split.starts[k], split.maxChars)))) > 0}

PrecedingEmitted(k) ==
  CHOOSE j \in EmittedIterations : j < k /\ \A l \in EmittedIterations : l < k => l <= j

C28_EverySliceAddsAPosition ==
  (phase = "returned" /\ split.maxChars >= 1 /\ split.overlapChars < split.maxChars) =>
    \A k \in EmittedIterations :
      (\E j \in EmittedIterations : j < k) =>
        /\ SlicePositions(k) \ SlicePositions(PrecedingEmitted(k)) # {}
        /\ Len(text) - 1 \notin SlicePositions(PrecedingEmitted(k))

(***************************************************************************)
(* C29.  For maxChars >= 1 and overlapChars >= 0 the slices of             *)
(* splitLargeText cover the text without gaps: each next start is at most  *)
(* the end of the slice before it, so every character of the text that is  *)
(* not whitespace lies in an emitted slice, and two consecutive slices     *)
(* share at most overlapChars positions when the next start was not set by *)
(* the start + 1 rule.                                                     *)
(***************************************************************************)
\* The end of the slice of iteration k, as slice() clamps it.
SliceStop(k) == Min(SliceEnd(text, split.starts[k], split.maxChars), Len(text))

\* The iterations after which the loop moved on by start + 1.
ForcedAdvance(k) ==
  split.starts[k] + 1 > SliceEnd(text, split.starts[k], split.maxChars) - split.overlapChars

C29_SlicesCoverTheText ==
  (phase = "returned" /\ split.maxChars >= 1) =>
    /\ \A k \in 1..(Len(split.starts) - 1) : split.starts[k + 1] <= SliceStop(k)
    /\ \A p \in 0..(Len(text) - 1) :
         ~IsSpace(Char(text, p)) => \E k \in EmittedIterations : p \in SlicePositions(k)
    /\ \A k \in 1..(Len(split.starts) - 1) :
         ~ForcedAdvance(k) =>
           Cardinality(SlicePositions(k) \cap SlicePositions(k + 1)) <= split.overlapChars

C29_Witness ==
  /\ phase = "returned"
  /\ split.maxChars >= 2
  /\ split.overlapChars >= 1
  /\ Len(split.starts) >= 3
  /\ \E k \in 1..(Len(split.starts) - 1) :
       /\ ~ForcedAdvance(k)
       /\ Cardinality(SlicePositions(k) \cap SlicePositions(k + 1)) = split.overlapChars
  /\ \E p \in 0..(Len(text) - 1) : IsSpace(Char(text, p))
  /\ \E k \in 1..Len(split.starts) : k \notin EmittedIterations

(***************************************************************************)
(* C30.  Every record processChunks returns carries chunk_index equal to   *)
(* the zero-based position of its chunk in the chunker's output, content   *)
(* equal to that chunk and total_chunks equal to the length of the         *)
(* chunker's output; so the chunk_index values of the returned list are    *)
(* strictly increasing and below total_chunks, and after a per-chunk       *)
(* embedding failure total_chunks exceeds the number of records and the    *)
(* indices have a gap.                                                     *)
(***************************************************************************)
\* The chunk_index values of the records, in the order of the records.
Indices(rn) == [n \in 1..Len(rn.knowledgeChunks) |-> rn.knowledgeChunks[n].chunk_index]

RecordsMatchChunks(rn) ==
  /\ \A n \in 1..Len(rn.knowledgeChunks) :
       /\ Indices(rn)[n] \in 0..(Len(rn.chunks) - 1)
       /\ rn.knowledgeChunks[n].content = rn.chunks[Indices(rn)[n] + 1]
       /\ rn.knowledgeChunks[n].total_chunks = Len(rn.chunks)
  /\ \A n \in 1..(Len(rn.knowledgeChunks) - 1) : Indices(rn)[n] < Indices(rn)[n + 1]

EmbeddingFailed(rn) == \E k \in 1..Len(Embeddings(rn)) : ~Embeddings(rn)[k].ok

\* The indices do not start at 0 or skip a number between two records.
HasGap(rn) ==
  \/ Len(Indices(rn)) >= 1 /\ Indices(rn)[1] # 0
  \/ \E n \in 1..(Len(Indices(rn)) - 1) : Indices(rn)[n + 1] > Indices(rn)[n] + 1

\* Some position of the chunker's output is the index of no record.
IndexMissing(rn) ==
  \E i \in 0..(Len(rn.chunks) - 1) : \A n \in 1..Len(Indices(rn)) : Indices(rn)[n] # i

\* As stated: after a failure the indices have a gap.
C30_FailureLeavesAGap ==
  \A c \in Clients :
    run[c].pc = "store" =>
      /\ RecordsMatchChunks(run[c])
      /\ EmbeddingFailed(run[c]) =>
           /\ Len(run[c].chunks) > Len(run[c].knowledgeChunks)
           /\ HasGap(run[c])

\* Amended: after a failure some index below total_chunks is missing, which
\* is a gap only when a chunk after the failed one was embedded.
C30_FailureLeavesAnIndexOut ==
  \A c \in Clients :
    run[c].pc = "store" =>
      /\ RecordsMatchChunks(run[c])
      /\ EmbeddingFailed(run[c]) =>
           /\ Len(run[c].chunks) > Len(run[c].knowledgeChunks)
           /\ IndexMissing(run[c])
           /\ HasGap(run[c]) <=>
                \E k \in 1..Len(Embeddings(run[c])) : \E l \in 1..Len(Embeddings(run[c])) :
                  k < l /\ ~Embeddings(run[c])[k].ok /\ Embeddings(run[c])[l].ok

\* The first of two embedding calls failed: the one record has index 1 of 2.
C30_Witness ==
  \E c \in Clients :
    /\ run[c].pc = "store"
    /\ Len(run[c].chunks) = 2
    /\ EmbeddingFailed(run[c])
    /\ Len(run[c].knowledgeChunks) = 1
    /\ run[c].knowledgeChunks[1].chunk_index = 1
    /\ run[c].knowledgeChunks[1].total_chunks = 2
    /\ HasGap(run[c])

=============================================================================
